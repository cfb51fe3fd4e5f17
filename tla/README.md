# Verification of the KadRTT Kademlia DHT

This directory holds TLA+ models of the Go code under `src/dht`: a fork of
`go-libp2p-kad-dht` (the DHT) and of `go-libp2p-kbucket` (its routing table)
that adds *KadRTT*, a mode in which buckets are resized by measured arrival
rates and peers are exchanged by round-trip time and by the variance of their
IDs. The models are checked by TLC on small instances and theorems about them
are proved by TLAPS for every value of the constants. `PROJECT.json` maps every
definition to the lines it translates and lists runs, mutants, findings,
hazards and theorems.

## 1. Inventory of the system

| Component | Source | State | Operations | Interacts with |
|---|---|---|---|---|
| Iterative lookup | `query.go`, `lookup.go`, `qpeerset/qpeerset.go` | the `QueryPeerset`, the buffered channel `ch`, one goroutine per peer being queried, the termination flag, the follow-up goroutines and `doneCh` | `GetClosestPeers`, `runLookupWithFollowup`, `runQuery`, `run`, `queryPeer`, `updateState` | seeds come from the routing table; workers evict (`peerStoppedDHT`) and admit (`peerFound`) peers; RPCs go through the message senders |
| Routing table | `table.go`, `bucket.go` | the buckets, each with its peers and its `k`, `alpha`, `beta` | `TryAddPeer` (`addPeer`, `addPeer2`, `addPeerKadRTT`), `RemovePeer`, `MarkAllPeersIrreplaceable`, `UpdateLastUsefulAt` | callbacks `PeerAdded`/`PeerRemoved` tag connections; asks the diversity filter; everything under `tabLock` |
| Nearest-peer queries | `table.go`, `sorting.go`, `kadrttsorting.go` | none of its own | `NearestPeers`, `NearestPeer`, `Find` | read the table |
| KadRTT measures | `table.go`, `kadrttbypeer.go`, `kadrttvariance.go` | none | `getIDVarianceByCPL`, `calcIDVarianceByCPL`, `getIDVarianceWithOut` | choose the peer to exchange or to discard |
| IP diversity filter | `peerdiversity/filter.go`, `rt_diversity_filter.go` | the recorded groups of each peer and the counts per IP group | `TryAdd`, `Remove` | called by the table when it adds or removes |
| XOR key space | `util.go`, `keyspace/` | none | `CommonPrefixLen`, distances | everywhere |
| Message senders | `dht_net.go`, `ctx_mutex.go`, `Disconnected` of `subscriber_notifee.go` | `strmap`: one sender per peer with a stream, a lock, `invalid`, `singleMes` | `messageSenderForPeer`, `prep`, `SendRequest`, `SendMessage`, `invalidate` | used by every RPC; the network reports disconnections |
| Routing table loop, DHT lifecycle | `dht.go`, `dht_bootstrap.go`, `pingpong.go` | `bootstrapCount`, `isBootsrapping`, the freeze timer, the channels `addPeerToRTChan` and `refreshFinishedCh` | `rtPeerLoop`, `fixLowPeersRoutine`, `Close` | owns the additions to the table; woken by the refresh manager |
| Refresh manager | `rtrefresh/rt_refresh_manager.go` | pending trigger requests | `loop`, `doRefresh`, `refreshCpls` | lookups refresh cpls; writes `refreshDoneCh` |
| Refresh targets, prefix map | `table_refresh.go`, `bucket_prefixmap.go`, `generate/` | `cplRefreshedAt`; a generated table of one key for every 16-bit prefix | `GetTrackedCplsForRefresh`, `GenRandPeerID` | give the refresh manager the cpls and the IDs to look up |
| Inbound streams and modes | `handleNewMessage` of `dht_net.go`, `setMode` of `dht.go`, `handlers.go` | the stream handlers of the host, one goroutine and idle timer per stream, `mode` under `modeLk` | `handleNewStream`, `moveToServerMode`, `moveToClientMode`, the handlers of all six request types | reachability events switch the mode; handlers read the table, the peerstore and the providers |
| Network notifee | `subscriber_notifee.go` | an event subscription | handlers for identification, protocol and reachability events, `Disconnected` | table, mode, senders |
| Value store | `routing.go`, `records.go`, `handlers.go` | the datastore, the striped locks | `PutValue`, `GetValue`, `SearchValue`, `handlePutValue`, `handleGetValue` | lookups and RPCs |
| Provider search and announcements | `routing.go` | the set `ps` that all queries share, the channel `peerOut` | `FindProvidersAsync`, `Provide` | lookups, the provider manager |
| Peer and key retrieval | `routing.go`, `records.go` | a channel of two answers | `FindPeer`, `GetPublicKey` | lookups, a request to the peer itself |
| Provider manager | `providers/` | an LRU cache over the datastore, the garbage-collection cursor | `addProv`, `getProvs`, `run` | handlers, `Provide`, `FindProviders` |
| Dual DHT | `dual/dual.go` | the goroutines and channels of one call | asks a WAN and a LAN DHT, at a time or one after the other, and merges what they answer | every call of the two DHTs |
| Options, filters, events, metrics, wire messages | `dht_options.go`, `dht_filters.go`, `events.go`, `metrics/`, `pb/` | configuration, observation, encoding | | |
| Test-plan harness | `main.go`, `test/`, `utils/`, `libp2p/` | drives a simulation of the DHT | | not part of the program verified |

**What is hard here.**

* *Lookup.* Three kinds of goroutine share a buffered channel that nobody reads
  after termination, while `run()` waits for all workers; a stop function and a
  context may change at any moment; `updateState` panics if an update meets its
  peer in the wrong state. Correct means: no worker blocks for ever, no panic,
  at most `alpha` queries at a time, everything is joined, the flags of the
  result are true, the lookup returns.
* *Table.* One call unfolds, resizes, discards, replaces and collapses buckets
  while holding pointers to them. Correct means: each peer is in the bucket
  `bucketIdForPeer` gives (otherwise `getPeer` returns nil and is
  dereferenced), the answer to the caller, the connection tags and the filter
  agree with the table, capacities and quotas hold, irreplaceable peers stay.
* *Senders.* Goroutines keep pointers to senders that have left the map; reads
  time out and answers may come late; a write has no deadline and does not see
  the context; the lock may be waited for in vain.
  Correct means: no answer is taken for another's, an invalid sender is never
  reopened or left in the map, no stream is forgotten, calls end unless the peer
  stalls a write or a dial.
* *Loop and refresh.* `processAdd` runs in its own goroutine with a flag read
  before its ping; the manager and the loop meet at unbuffered channels, and
  lookups of a refresh block on the loop. Correct means: nobody waits for ever,
  a refresh is answered, bootstrapping ends, the freeze timer belongs to the
  present bootstrap, closing ends every goroutine.
* *Values.* The handler reads, selects and writes under a striped lock,
  `PutValue` without it, and the GET handler deletes without it. Correct
  means: no better value is overwritten by a worse one, only old records go.
* *Value search.* Workers and follow-ups of a lookup send values through a
  channel with one place to a goroutine that may stop reading; the lookup is
  stopped by that goroutine, by its own end or by the context. Correct means:
  nobody sends on the closed channel, no value is lost, what the caller gets
  only improves, only peers with worse values are corrected, everything ends.
* *Providers.* A cache is updated before a datastore write that may fail, and
  a collection works on query results that are older than the records. Correct
  means: no fresh record is deleted, the cache answers for the disk, expired
  records go.

* *Provider search.* Queries add to one set, then block on a channel that the
  caller may not read, while the lookup ends and cuts them off. Correct means:
  no provider twice, never more than asked for, the channel is closed once and
  in the end, and no peer of the result is passed over.
* *Dual DHT.* Two channels that close, repeat each other or stay silent are
  merged in one `select`; one part is cancelled when the other has answered.
  Correct means: the merged channel keeps the promise of each part, what either
  part has reaches the caller, and every call ends.
* *Server.* Streams are opened, served and reset while reachability events
  switch the mode. Correct means: nobody is served by a client, the
  mode follows the last event, a silent peer cannot keep a stream for ever,
  only a provider itself is recorded, an answer does not name the asker.
* *Refresh targets.* Masks and shifts choose a 16-bit prefix. Correct means: the
  ID looked up has the cpl asked for, and every bucket's cpl is tracked.

The section `hazards` of `PROJECT.json` has each of these at its line.

## 2. Modules

| Module | Models | Composition |
|---|---|---|
| `Lookup` | one `GetClosestPeers` | implements `LookupOutline`; table values (`alpha`, `beta` of a bucket) are read as nondeterministic choices |
| `LookupProofs` | its theorems | extends `Lookup` |
| `Keyspace` | IDs as bit sequences, common prefix, distance and its order | |
| `IDVariance` | the KadRTT measures | extends `Keyspace` |
| `DiversityFilter` | filter operations on a filter state | instantiated by `RoutingTable` |
| `TableOutline` | abstract: the table as its users see it, who is in it and may be replaced | |
| `RoutingTable` | the table and all its writers | extends `IDVariance`, instantiates `DiversityFilter`; implements `TableOutline` |
| `NearestPeers` | the queries `NearestPeers`, `NearestPeer` and `Find`, as operators of a table state | extends `RoutingTable` |
| `TableRefresh` | the cpls to refresh, `GenRandPeerID` and the prefix map | extends `NearestPeers` |
| `RoutingTableProofs` | the theorems on the table, its filter, its queries and its refresh targets, and on the key space | extends `TableRefresh` |
| `MessageSender` | the senders to one remote peer | stands alone |
| `MessageSenderProofs` | its theorems | extends `MessageSender` |
| `RtPeerLoop` | the goroutines around the table: `rtPeerLoop`, refresh manager, `fixLowPeersRoutine`, notifee, callers, shutdown | extends `TableOutline`: the goroutines are composed over what the table promises |
| `RtPeerLoopProofs` | its theorems | extends `RtPeerLoop` |
| `ProviderManager` | provider records: cache, datastore, garbage collection | stands alone |
| `ProviderManagerProofs` | its theorems | extends `ProviderManager` |
| `ValueStore` | the record of one key: the PUT and GET handlers and `PutValue` | stands alone |
| `ValueStoreProofs` | its theorems | extends `ValueStore` |
| `Node` | the constants of a node that its parts share | |
| `CallerContext` | the context a caller passes | |
| `LookupOutline` | abstract: the lookup as a search sees it, without distances | extends `Node` and `CallerContext` |
| `ValueSearch` | one `SearchValue` with its lookup | extends `LookupOutline` |
| `ValueSearchProofs` | its theorems | extends `ValueSearch` |
| `ProviderStream` | abstract: what `FindProvidersAsync` promises | |
| `ProviderCall` | the arguments of `FindProvidersAsync` and the room in its channel | extends `CallerContext` |
| `ProviderSearch` | one `FindProvidersAsync` with its lookup | extends `LookupOutline` and `ProviderCall`; implements `ProviderStream` |
| `DualProviders` | `FindProvidersAsync` of the dual DHT | extends `ProviderCall`; its two parts are instances of `ProviderStream`, and it implements `ProviderStream` |
| `Calls` | `FindPeer`, `GetPublicKey`, `Provide`, `PutValue` around their lookups | parameterised by the DHTs they run on |
| `Dual` | one call on the dual DHT | extends `DualProviders` and `Calls` |
| `StreamServer` | inbound streams, handlers, mode switches | extends `Node` |
| `ServiceProofs` | the theorems on the provider search, the server and the dual DHT | extends `ProviderSearch`, `StreamServer` and `Dual`, which are independent of each other |
| `MCLookup`, `MCRoutingTable`, `MCMessageSender`, `MCRtPeerLoop`, `MCProviderManager`, `MCValueStore`, `MCValueSearch`, `MCProviderSearch`, `MCDual`, `MCStreamServer` | small instances for TLC | |

### Lookup

`pc` is the place of the main goroutine: `start` (before `runQuery`), `select` (the
loop of `run`), `join` (`waitGroup.Wait`), `check` (the result is made), `followup` (its
loop), `drain` (what comes after that loop), `return` (the end of `GetClosestPeers`). `qstate` is the `QueryPeerset`; `ch` the
buffered channel; `worker[p]` and `report[p]` the goroutine that queries `p`
and the update it is about to send. `HandleUpdate` is one whole iteration of
the loop: it receives one update, applies `updateState`, decides whether to
terminate and otherwise spawns the queries. Between any two iterations the
workers, the context (`CancelContext`) and the stop function (`ChangeStop`) move.
`terminate` cancels the path context, so workers see failures after it.
Distances are abstract but injective; `Replies[p]` says which sets of closer
peers a peer may answer with. `followup[p]` is the follow-up of `p`: running,
`finished` when its token is in `doneCh`, `received` when the main goroutine has taken
it. The tokens that `runLookupWithFollowup` takes one by one at the end of an
incomplete lookup are taken in one step, `EndFollowup`, when all are there: nothing
else can happen to them. `MaxAlpha` bounds the concurrency that the table may give a
bucket.

### RoutingTable

Every operation holds `tabLock`, so each is one action. `buckets` is a sequence
of records (peers, `k`); `info` the `PeerInfo` of the peers; `tagged` what the
callbacks have told the connection manager; `filter` the state of the diversity
filter; `ret` what the last operation answered. The variants of `TryAddPeer` share the steps they have in
common (`AlreadyThere`, `RejectHighLatency`, `RejectByFilter`, `AddWithSpace`,
`AddUnfolded`, `ReplacePeer` or `ExchangePeer`, `RejectNoCapacity`) in the order
of the code's early returns; the constant `Adder` selects the variant, as the
option `isKadRTT` does in the code. Peers have no order in a bucket: it
decides only between equally good victims, and the model takes any. The
branches of `addPeerKadRTT` for buckets of at most one peer cannot be reached
with a bucket size of 2 or more, since a bucket that full always has more peers.

### TableOutline

The table for those who do not look into its buckets: each peer is out, in it and
replaceable, or in it to stay. `Enter` is an addition that finds a place. `MakeRoom` is
one to a bucket with too many peers: `addPeer` replaces one replaceable peer;
`addPeerKadRTT` may discard several whether they are replaceable or not, may then refuse
the new peer, and enters one that it exchanges as replaceable, whatever it was asked.
In both cases one more peer stays. `RtPeerLoop` is built from these operations,
and `ImplementsOutline` says that `RoutingTable` keeps to them, with `membership` as
the refinement mapping.

### NearestPeers and TableRefresh

Both read the table and change nothing, so they are operators of a state of
`RoutingTable`, and their properties are invariants of the table's runs.
`gathered` is the set of peers `NearestPeers` looks at for a key, `OKList` the
part of it that is sorted to the front. The answer is not cut to the count
asked for, as in the code. `TableRefresh` has the generated map as what its
generator computes, the first key for each prefix, over an arbitrary hash
function that hits every prefix; the random bits are any bits.

### MessageSender

For one remote peer: `strmap` the entry of the map, and for each sender its
stream, its lock, `invalid`, `singleMes`, and `pipe`, the requests
written to the current stream and not yet answered. Callers move through
`prepOrInvalidate` (only the creator of a sender), the lock, `prep`, the write
and the read; each may fail. A reset stream loses its pipe. `ended[c]` says that the
context of `c`'s call has ended (`EndContext`, by the caller of the DHT or a
deadline): it ends a wait for the lock and a dial, and it may end a read; a write
goes on. `Disconnected` is the notifee's handler, `Invalidate` the goroutine it starts.

### RtPeerLoop

Each goroutine has a variable for its place: `loop`, `mgr`, `fix`, `event`,
`user[u]`. A rendezvous on an unbuffered channel (`addPeerToRTChan`,
`refreshFinishedCh`, `triggerRefresh`) is one step of both sides;
`fixLowPeersChan` has room for one token. `sending[s]` is the peer with which a
lookup, `fixLowPeers` or the notifee is blocked in `peerFound`. A refresh goes
through `batch` (requests that wait together), `ping` (peers that do not answer
are evicted), `self` (the query for the own ID), `cpls` (one cpl after another,
on the slice taken before), then `done` (blocked on `refreshDoneCh`) or, after
a cpl without peers, `rest` (the code returns early), and `reply`. Of the table
only membership and the `replaceable` flag are kept: `TryAddPeer` is the `TableAdd` of
`TableOutline`, with every outcome of the variant the mode uses. In KadRTT mode the loop starts a `processAdd` goroutine that carries the
`isBootsrapping` of that moment; `MaxAdds` bounds how many run at a time.
`bootstrapCount` stops at 2, since the code only asks whether it has just
become 2.

### ProviderManager

`run` is one goroutine, so each case of its `select` is one action; a
collection is `StartGC`, one step per query result and `EndGC`. `cache[k]` is
the provider set under `k` (an empty set is never cached), `dstore` the
records, `gcQuery` the results still to come, with the times they had in the
snapshot, `gcSkip` the records written since. `Failures` says which datastore
operations may fail. The LRU may give up any cached key for a new one.

### ValueStore

For one key: `rec` the stored record, `lk` the striped lock, `mine[c]` the
record that request `c` is to write or has read. Values are ranked as
`Validator.Select` ranks them, and a value may lapse (`Validate` fails
from then on). The handler of PUT_VALUE validates, locks, reads and compares,
writes; `PutValue` does the same without the lock; the handler of GET_VALUE
reads and deletes in two steps. Every datastore access may fail. `owner`
says whether applications of this node put values under the key.

### LookupOutline and ValueSearch

`LookupOutline` has what the searches have in common: `lookup` goes from `run`
over `join` (the wait for the workers) to `followup`, possibly `drain`, and
`ended`; `work[p]` is the query of `p`, which the search moves from `asking` to
`report` or `failed`, and the lookup from there to `done` or `unreachable`. Which
peers are near, and when the lookup hears of them, is any choice. A query whose
update is never seen, because the lookup has ended, is asked again by the
follow-up, as in the code. `LookupNext` is the lookup with queries that go on as they
like: the searches build their next-state relations from the same actions, and say what
each query does and when the lookup is stopped.

`Lookup` implements it: `KeepsOutline` says that each of its steps is a step of
`LookupNext` or leaves the three variables alone. `place` maps `pc` (the lookup is
idle until the seed update is handled, and ended when no follow-up it waits for is
left); `queries` maps the state of each peer together with its worker, the update in `ch`
and its follow-up; `outcome` the result. The stop function is any choice in it, as in
`Lookup`. The concurrency is at most `MaxAlpha`, of which the outline knows only
that it is not exceeded. The outline is wider in what it leaves out: in which order
peers are heard of, and that a completed result is judged by distance.

In `ValueSearch`, `main` is the place of `SearchValue`'s goroutine: in the
`select` of `processValues` (`recv`), handing a better value to the caller
(`send`), waiting for the lookup's result (`result`), `ended`. A query with a
value to put into `valCh` is at `send`. Values are ranked as in `ValueStore`,
`holds[p]` is what `p` answers with, `NoVal` the worst rank. The end of the
lookup closes `valCh`. `Validator.Select` is taken not to fail on two values that
validate.

### ProviderStream and ProviderSearch

`ProviderStream` is the promise of `FindProvidersAsync`, in three variables: the
count, what was sent, whether the channel is closed. In `ProviderSearch` the local
providers and the answers of the queries go through the same loop, so one pair
of actions, `TryAdd` and `SendProvider`, has a parameter for who runs it; `ps` is
the set they share, `pend[w]` the provider `w` has added to it and waits to send,
`rest[w]` the rest of its answer. `sent` and `taken` are the two ends of `peerOut`.
The refinement mapping is the identity but for `closed`, which is the end of
`findProvidersAsyncRoutine`.

### Calls, DualProviders and Dual

`Calls` models one call on each DHT of a set by its place `part[d]`, which ends
as the error it returns. A lookup in it is one step whose result is complete
unless its context has ended, which is what `Lookup` shows. `Provide` has the
earlier deadline `innerDone` of its lookup and goes on with the peers found by
then; `GetPublicKey` has two goroutines and a channel with room for both answers,
so none is left behind.

`Dual` chooses one call in `DualInit` and follows it to its end: `DualProviders` for
`FindProvidersAsync`, `CancelLan` with the returns of both parts for `GetValue`, the
combined answers of `FindPeer`, the first of `GetPublicKey`, the forwards of
`Provide` and `PutValue` and the calls in turn of `Bootstrap` and `Close`. In
`DualProviders` the parts are known only by `ProviderStream`, so the merge is
checked against every search that keeps the promise, and shown to keep it again.

### StreamServer

`stream[p]` is the place of the goroutine of `p`'s stream: `opening` (libp2p has
found the handler and not yet set the protocol), `check` (`getMode`, which waits for
`modeLk`), `read`, `handle`, `write`. `switch` is how far `setMode` is: the mode is
set first, then the handlers are removed, then the connections are gone through one by
one (`unseen`), and only then `modeLk` is free again. `latest` is the last event the
host has emitted, kept for `ModeFollows`; `announced` the peers that have named
themselves, kept for `OnlyOriginators`. Keys are the peers they name; the table's
answer is any that `NearestComplete` allows; the record of GET_VALUE and
PUT_VALUE is `ValueStore`'s matter. A request carries the peers it names: providers
where `handleAddProvider` looks at them, closer peers where they are sent back,
for `handlePing` and `handlePutValue` answer with the request itself (`Echo`). `Idle` is the timer as well as a reset by the
peer. Of libp2p (external) only what the code relies on is modelled: a removed
handler is not found by new streams, one that was found is run.

## 3. Runs

| Run | Instance | Shows |
|---|---|---|
| `lookup` | 3 peers, KadRTT mode, bucket alpha and beta in {1, 2}, a stop function that changes its mind, cancellation at any point | no worker blocks (`NoWorkerBlocks`), a refresh is recorded only for a converged lookup (`RefreshedMeansConverged`), the lookup is what the searches take it for and so joins all it has started (`KeepsOutline`: a refinement of `LookupOutline`), it returns and so does not panic (`LookupReturns`) |
| `table_plain` | `addPeer`, 5 peers, 4-bit IDs, bucket size 2, quotas 2, a whitelisted peer, latencies that change, capacities falling with depth | `DiversityQuota`; `NearestComplete`: the answer to every 4-bit key has the nearest `bucketsize` peers of the table; `RefreshHitsBucket`: every cpl is tracked and every generated ID falls into its bucket; `ImplementsOutline`: a refinement of `TableOutline` |
| `table_kadrtt` | `addPeerKadRTT`, 4 peers, two round-trip times, capacities that change from call to call and are even, fall or rise with depth | `TagsCoverTable`, `CapacityBound`; `FirstIsNear`: the preferred peer is no slower than the nearest and less than twice as far |
| `senders` | 2 callers with a message each, 2 senders | `AnswerIsOwn`: answers are not mixed up; `MappedIsUsable`: invalid senders leave the map; `CallEnds`: every call ends, unless the peer holds up for ever a write, or a dial whose context goes on, of the call itself or of the one that has the lock; a context that ends is enough for whoever only waits for the lock |
| `providers` | 2 keys, 2 providers, a cache of one set, failing writes, deletions and queries | `OnlyExpiredGo`, `CacheCovers`, `ExpiredCollected`: expired records are collected while there are collections |
| `loops` | one peer of cpl 1, both modes, one caller, shutdown at any point | `FrozenMeansIrreplaceable`; `RefreshAnswered`, `BootstrapEnds`, `CloseEnds`; no deadlock |
| `values` | 2 requests at a time, 3 values, a node that puts values itself or not | `NoDowngrade`: no worse value replaces a better one; `RequestEnds` |
| `value_search` | 3 peers asked two at a time, a result of two, a record of the node itself or none, no quorum or a quorum of 1, cancellation at any point | `NoSendAfterClose`, `BestOfResult`, `CorrectedHadWorse`; `SearchEnds`: search and lookup end |
| `provider_search` | 3 peers asked two at a time of which one knows no provider, 2 providers, counts 0, 1 and 2, a caller that may not read, cancellation at any point | `KeepsPromise`: a refinement of `ProviderStream`; `AllOfResultFound`; `ProviderSearchEnds` |
| `dual` | every call on the dual DHT, 3 providers, counts 0 to 2, lookups that find 2 peers, failures of either part, cancellation and deadlines at any point | `MergeKeepsPromise`: a refinement of `ProviderStream`; `NothingHeldBack`, `AnswerNotLost`, `AnnouncedToAll`, `DualEnds` |
| `server` | 3 peers of which 2 open streams, all four mode options, 2 reachability events, one request of any type or garbage | `NotServedAsClient`, `OnlyOriginators`; `AnswersFit`: the closer peers that a handler chooses never name the asker; `ModeFollows`, `StreamsEnd` |
| `table_quota` | violation | a peer exchanged in is dropped from the filter, so quotas are exceeded |

The violation is a place where the code does not do what a comment of the
repository says; `findings` in `PROJECT.json` quotes the line. More such
places were met and have no run of their own:

* A sender whose first `Lock` was cancelled is deleted from `strmap` without being
  invalidated (`dht_net.go:300`), while another caller prepares it: its stream
  stays open on a sender that is in no map, although `invalidate` "is called
  before this messageSender is removed from the strmap" so that it is not
  "forgotten (leaving the stream open)" (`dht_net.go:320`). `NoForgottenStream`
  is proved for contexts that do not end and fails for others.
* `PutValue` reads, compares and writes without the striped lock (`routing.go:42`),
  so it may overwrite a better record that a handler stored in between,
  although it means to refuse this ("can't replace a newer value with an older
  value", `routing.go:56`). `NoDowngrade` is therefore about a node that does not put
  values under the key itself.
* A query of `FindProvidersAsync` that is cut off after `TryAdd` (`routing.go:578`)
  leaves a provider that counts as found and is never sent, by it or by
  any other query, although peers "will be returned on the channel as soon as
  they are found" (`routing.go:503`). `AllOfResultFound` speaks of what is found.
* `PeerInfosToPBPeers` sets the connection type on a copy of each entry
  (`pb/message.go:77`), so no answer carries it, although the comment above says
  that this is what the function does.
* `getCachedRouter` returns the router it read before it made a new one
  (`dht_filters.go:135`), nil at first, although it means to cache it "for two
  minutes".
* `dual.New` appends `ModeServer` behind the options of the user
  (`dual/dual.go:129`), although the comment says "unless overridden by user supplied
  options" and names `AutoServer`.
* `FindPeer` wants to take an unreachable peer for one that was dialed
  (`routing.go:665`), but peers of that state are never in a lookup's result.
* `NearestPeers` does not cut its answer to the count asked for
  (`table.go:2101`).
* `writeMsg` (`dht_net.go:48`, called at 383 and 420) has no deadline and is not
  passed the context, while `ctxReadMsg` has both: a peer that does not read can
  keep a call in its write, and with it the lock of the sender that all
  other calls to the peer wait for until their own contexts end. `CallEnds`
  excludes exactly these cases.
* `handlePing` and `handlePutValue` return the request with all the peers it
  names (`handlers.go:253` and 218), its sender too if it names that, while the
  handlers that choose closer peers "never tell a peer about itself". `AnswersFit` is
  about the latter.
* `addPeerKadRTT` returns `ErrPeerRejectedNoCapacity` for a peer it has just
  exchanged into the table (`table.go:1684`), although `TryAddPeer`'s comment
  says an error means it was not added: the theorem on `AnswerIsTrue` is for the other variants.
* A peer discarded by a shrinking bucket is not reported to `PeerRemoved`
  (`table.go:1473`) and keeps its tag and its filter entry, and the discard
  ignores `replaceable`: the theorems on `TagsMatchTable` and
  `IrreplaceableStays` are for the other variants too.
* `calcIDVarianceByCPL` does not reset its accumulator (`table.go:993`), so an
  exchange may raise the variance it was meant to lower (`table.go:1591`).
* `Find` (`table.go:2065`) may miss a peer that is in the table: the double of
  its distance 0 is 0, and the rest is sorted by round-trip time. `FirstIsNear`
  leaves out such keys.
* In KadRTT mode `run` terminates by the `beta` of the options and
  `constructLookupResult` judges by the larger one of the bucket (`query.go:219`):
  a lookup that nothing disturbed may have `completed = false`, although the
  field's comment ties it to "an external condition" (`query.go:67`).
* After a quorum nobody reads `valCh` (`routing.go:345`). Workers that still
  have values block on it, the lookup looks at its stop function only when an
  update arrives, and so it lasts until the caller's context ends, although
  `runLookupWithFollowup` promises to stop "when either the context is
  cancelled or the stop function returns true" (`query.go:72`). `SearchEnds`
  names the case; without its exclusion TLC finds it.
* The quorum takes one response more than asked for (`numResponses > nvals`,
  `routing.go:198`; "how many peers it needs to get values from",
  `routing_options.go:7`), and the node's own record counts as one.
* A peer with an invalid record is treated as one that failed, and evicted,
  since `errInvalidRecord` is returned (`routing.go:358`) after the comment "in either
  of these cases, we want to keep going".
* `completed` is set for a lookup that was cancelled in its select loop if no
  peer of the result was pending, although the field's comment excludes it.
* When the datastore query of a collection fails, `gcTimer` is not set again
  (`providers_manager.go:205`) and there is no further collection, although
  `CleanupInterval` "sets the time between GC runs".
* `doRefresh` returns early at a cpl without peers and then does not write
  `refreshDoneCh` (`rt_refresh_manager.go:238`), whose comment says "write to
  this channel after every refresh". It happens also when the only peer of the
  highest cpl is evicted after the slice was taken.
* In KadRTT mode `processAdd` may add a replaceable peer after the table was
  frozen, as its flag is from an earlier moment.
* The refresh that `rtPeerLoop` asks for after a bootstrap is dropped unless the
  manager is back at its `select`, as `RefreshNoWait` does not wait.
* The handler of GET_VALUE may delete a record that was written after it read
  an older one (`handlers.go:135`); `OldOnesTossed` names the case.

**Bounds.** Three peers are the fewest for which a lookup iterates (the nearest
is known only to the others), has two workers at once and one heard peer left
over; the queues are bounded by the code itself. Four bits and bucket size 2 let
one bucket overflow, unfold, and have neighbours on both sides, and let removal
collapse from the end and from the second-to-last bucket. `table_kadrtt` has a VIEW
without the last answer and without `useful`, which no guard and none of its invariants
read. The capacity of
`KMaps` is never below the bucket size, as in the code, where `CalcKOpt` starts from
it; it falls or rises with depth, so that a collapse brings a bucket to a place with a
smaller capacity and an unfolding peers to buckets that are too small for them. Two callers are enough for a creator and another user of its sender;
`streamReuseTries` is 0 instead of 3 so that one retry takes a sender over its
limit; `MaxCalls` bounds how often each caller sends, and there are as many
senders as calls. `ProvideValidity` is 0 and the clock (`MaxTime`) stops at 2,
so that a record can expire, be announced again and expire once more; one place
in the cache makes two keys compete. For the loops one peer of cpl 1
makes a gap at cpl 0, comes and goes, and empties and fills the table; `MaxAdds` 1
suffices for an addition that is overtaken by removals and by
the freeze; `minRTRefreshThreshold` is 0 instead of 10 so that the table can be
above it. Who finds the peer is a choice per mode (`Finds`), to keep the
liveness graph small: lookups and `fixLowPeers` without KadRTT, the notifee with
it. Three values
allow a downgrade in the middle of an upgrade; with `maxRecordAge` 1 and
`MaxTime` 2 a record can be young, just old enough to stay, and too old. For
the value search three peers leave one to be heard of late or followed up while
two are being asked, and two values with none make worse, equal and better
arrivals; peers differ only in what they hold, so the initial `holds` are
ordered; the same goes for the provider search, where one peer knows no provider,
another none, one or both, and counts 0 to 2 give a set that is full, has one place left,
or no limit. Three
providers on two parts let the merged channel overlap, stop at the count and
have a rest in each part. For the server two streams let one be reset while the
other is opened; two events make a switch back and forth; one request meets every
handler (`MaxRequests`) and names up to one peer (`MaxNamed`), the sender or
another one; a peer that is only sent back is named with addresses and is one of those
with streams, since nothing else about it matters. Three-bit prefixes of four-bit IDs, with 16 keys whose
hashes cover them, are the smallest in which masks, shifts and a tracked cpl below
and at the limit differ. With one peer the loops never take `MakeRoom`, which needs
another peer that stays; `RtPeerLoopProofs` is about any number of peers. The theorems are for all values of these constants.

**Fairness.** Weak fairness of the main goroutine and of every worker and
follow-up of a lookup: Go's scheduler is fair to runnable goroutines, and the dials
and RPCs are taken to end, by an answer, a timeout or an error; `CallEnds` says when they
do. Nothing is assumed of the context, the
stop function or the remote peers. For the senders: weak fairness of the steps of
a caller that do not wait for the peer alone (`ProceedAlone`): reads, which end by
`dhtReadMessageTimeout`, dials once their context has ended, leaving the queue for the
lock when the context ends, and all that is local. A write, and a dial whose context
goes on, may take for ever, a context need not end, and the invalidation after a
disconnection need not get its lock. Taking the lock is strongly fair, because
`ctxMutex` is a Go channel, which serves blocked senders in their order. For the providers: the timer fires, `run` serves the results, and no
record is one that can never be deleted (strong fairness of
`CollectExpired`). For the loops: weak fairness of what one goroutine does
alone, strong fairness of the rendezvous and of the ends of lookups and
`fixLowPeers`, since Go's `select` chooses among ready cases at random and channels
serve the blocked in turn, and `Lookup` shows that lookups end; nobody has to call
`Refresh` or `Close` or to find a peer. For the values: weak fairness of a
request's steps and strong fairness of the lock (`sync.Mutex` starves nobody).
For the value search: weak fairness of its goroutine, the lookup and each query;
the caller reads what it is given, as `GetValue` does; the context need not end.
For the provider search: the same, but the caller need not read. For the dual DHT:
weak fairness of its goroutines and of each part's steps; a part closes its
channel under the condition that `ProviderSearchEnds` gives. For the server: weak
fairness of the notifee, of each stream's goroutine except a write, which the
peer may stall, and of the idle timer; the peers and the host need not do
anything.

**Deadlock** is checked in every run but `server`; the end of a lookup, of all
calls and of the DHT is an explicit stuttering step. A server rests when its
events and requests are used up, so there the end of each stream and of each
switch is a liveness property instead.

## 4. Proofs

All constants are arbitrary within the named assumptions
(`LookupAssumption`, `RoutingTableAssumption`, `DistinctIDs`, `RefreshAssumption`, `SenderAssumption`,
`LoopAssumption`, `ProviderAssumption`, `ValueAssumption`, `SearchAssumption`,
`ServerAssumption`, `ProviderSearchAssumption`, `ProviderCallAssumption` and, for
the dual DHT, `DualParts`: that there are two parts).

* **`LookupProofs`.** `FlightInv` is the invariant that makes `NoWorkerBlocks`
  inductive: each worker that runs and each update in `ch` belongs to a peer that is
  `waiting`, each to a different one, and at most `alpha` peers wait. Counting
  them gives the room in `ch`, hence `waitGroup.Wait` never waits for a blocked
  worker, and the panics of `updateState` are unreachable. `AnswerInv` separates
  peers that failed from peers that answered. `FollowInv` ties the tokens
  received from `doneCh`, the follow-up goroutines and the flag `completed` to
  the place of the main goroutine; from it follow that everything is joined and
  that a completed result has only queried peers. `PeerProgress` is an action
  property: a peer's state only moves forward. `ConvergeInv` says
  that a result is completed only if the lookup has converged or starved, also when
  it was judged with the larger beta of a bucket, that the QueryPeerset does not
  change after the result is constructed, and that only a completed lookup at its end
  resets a refresh time; `RefreshedMeansConverged` follows.
  `LookupKeepsOutline` is the refinement of `LookupOutline`, one lemma per action.
  `FlightInv` and `FollowInv` are most of the invariant it needs; `OutlineInv` adds that
  the seed update is the first one handled and the only one without a peer to move on,
  that an update never both answers and fails, and that the result, until it is used, is the
  one the QueryPeerset gives. Three arguments carry it. The queries that `PeersToQuery`
  starts are no more than those that may still be (`OutlineHandle`, from a count of the
  closest n). A lookup that ends without being stopped has no query outstanding or at
  least `beta` answers, since fewer answers would leave a peer among the closest that has
  not answered (`ClosestSome`, `ClosestFull`, by a least distance). And the result has
  `bucketSize` peers, or all that may have answered (`ResultOfLookup`). So what is
  checked and proved of `ValueSearch` and `ProviderSearch` rests on the lookup of the
  code and not on a summary of it.
* **`RoutingTableProofs`.** The invariant `IInv` says the table is *good*
  (`Table`: well-typed; `Placed`: each peer is in the bucket its common prefix
  gives; `Sized`: once the table was unfolded every bucket has a capacity of
  `CalcKOpt`, without which a replacement could collapse the bucket away that the code
  still points at) and that the other variables have their types. Lemmas state what
  unfolding, collapsing, resizing, swapping and removing do to a good table; every
  variant of `TryAddPeer` is composed of them. Placement and `TagsCoverTable` hold for
  all variants; exact tags, true answers, the exact filter and irreplaceability are
  proved for `addPeer` and `addPeer2` (`Adder # "addPeerKadRTT"`); `addPeerKadRTT` does
  not have them, as section 3 says. `ExchangesAreFaster` is about `addPeerKadRTT`.
  `Roomy` is the strengthening of `CapacityBound`: not only the length of each bucket
  but also its `k` is within the capacities, and the buckets are finite. The bound
  cannot be the capacity of the bucket itself, since buckets and peers move between
  places of different capacity. `QuotaKept` combines the exact filter with a count: if
  every peer is recorded once, the entries of a group are as many as its peers
  (`EntriesCount`), and a peer enters only if the filter accepted it in the state
  before the call (`EntersAccepted`). `NearestFound` rests on `Triangle`: the bits that
  two IDs share with a third decide what they share with each other. So the peers of the
  key's bucket share more bits with the key than all others, those to its right share as
  many as the key with the local ID, those to its left fewer with each bucket, and whoever
  shares more is closer; a bucket is left out only if `bucketsize` closer peers have been
  gathered.
  *Keys and distances.* IDs of any width are read as integers by a recursive function, so
  what is known of them needs an induction. The library's induction theorems take an
  operator as a parameter, which the provers cannot instantiate; `Induction` has a set of
  naturals instead, and each fact is proved by the set of the lengths for which it holds.
  `CloserIsNearer` then says that comparing two XORs bit by bit is comparing them as
  integers: before the first difference the numbers are equal, after it one is smaller,
  and no bits that follow can make up for it (`StaysSmaller`).
  *Queries and refreshes.* For `FirstNear`, `NearestFound` puts the nearest peer of the
  table among those gathered, and since peers with the same ID are the same
  (`DistinctIDs`: IDs are hashes) it is the `first` whose double distance bounds the rest.
  For `RefreshCorrect`, the weights of the bits turn masks and shifts into quotients:
  the toggled prefix agrees with the local ID up to its bit `cpl` and differs there, the
  random bits come behind it, and the generated map has a key with that prefix.
  *Refinement.* `TableImplements` goes through the branches of `TryAddPeer` with the
  lemmas on what resizing, pushing, swapping and removing leave in the table, and gives for
  each the outcome of `TableOutline`. That one more peer stays whenever room is made needs
  the capacities to be at least `bucketsize`, and that to be at least 2: a bucket that
  discards peers keeps two, and a full one has two. So `IInv` is not enough here, and
  `Roomy` (buckets are finite) goes along.
* **`MessageSenderProofs`.** `PipeInv`: a lock is held exactly by the caller at
  a place that holds it, and a stream's pipe is empty unless its holder reads,
  when it contains that request alone. `AnswerIsOwn` follows. `DroppedInv` adds
  that unallocated senders are untouched and the mapped one is not dropped.
  With `~ContextsEnd`, `OwnedInv` (no context has ended, and every sender is mapped, awaits invalidation
  or is invalid) gives `NoForgottenStream`: the cancelled wait for the
  lock is the only cause of a forgotten stream.

* **`RtPeerLoopProofs`.** `FreezeInv` becomes inductive with what holds while
  the table bootstraps: the count of finished refreshes is 0 and no timer runs.
  For `FrozenMeansIrreplaceable` the invariant also says with which flag the
  loop is adding: outside a bootstrap every addition is irreplaceable, and
  removals only take peers away. `WaitersInv` is inductive as it stands:
  a request is taken in `select` or `batch` only, and answered before the
  manager is back.
* **`ProviderManagerProofs`.** `GCInv` is the reason why a collection is safe
  on old results: the record is unchanged, gone, or in `gcSkip`; and no time
  lies ahead, so what had expired at `gcTime` has expired now. `CacheCovers`
  and `StaleSinceGCOnly` follow each from itself and `GCInv`.
* **`ValueStoreProofs`.** `CheckedInv`: the lock is held exactly by the request
  at its comparison or its write, and at its write its value is still the better
  one, as nobody else writes and deletions and lapses only make it easier.
  `NoDowngrade` follows; for `OldOnesTossed` the invariant adds that what a
  request wants to toss was too old when it was read.

* **`ValueSearchProofs`.** `NoSendAfterClose` is inductive: every way to
  `ended` passes a join. `AccountedInv` says of every peer that was asked to the
  end that its value is worse than the best one, or equal with the peer in
  `peersWithBest`, or still in the buffer; `EndInv` that `processValues`, unless
  stopped or cancelled, has ended with the channel closed and empty. Together
  they give `BestOfResult` and `CorrectedHadWorse`. `StreamInv` (what is
  delivered is at most the best, and less while a better one is on its way)
  gives `StreamImproves`.

* **`ServiceProofs`** has the proofs about the server, the provider search and the
  dual DHT.
  *Server.* `SwitchInv` says of every stream beyond its `check`, unless it was reset,
  that the mode is server or the switch to client has still to come to its connection;
  the handlers follow the mode once the switch is past them. It holds although libp2p
  may run a handler that was removed, because such a stream asks for the mode, and
  waits for it, first. `OriginInv` adds to `OnlyOriginators` the requests that are still
  to be handled. `AnswersFit` follows from what each handler that chooses
  closer peers returns (`HandlersFit`); for the requests that are sent back it says
  nothing, and only their type is proved (`EchoType`).
  *Provider search.* `LookupMoves` states what a step of `LookupOutline` may do to the
  queries; `LookupInv` where the lookup is while the search is elsewhere; `SendInv` that
  what is sent or waits to be sent is in `ps`, was added by one query only, and is no more
  than `count`; `FoundInv` that a loop has found all but the rest of its answer as long as
  more providers are wanted. The refinement of `ProviderStream` follows from `SendInv`
  (each send is new and within the count, the close comes after the last query), and
  `AllOfResultFound` from `FoundInv`.
  *Dual DHT.* `MergeInv` accounts for every provider that the parts have sent: it was
  taken or is in a channel, what was taken is in `found`, and a part is given up only when
  its channel is closed and empty. From it follow `NothingHeldBack` and the refinement of
  `ProviderStream` by the merge of two of them. `AnswerInv` says that a part's
  error means that it has no answer, or was cancelled because the other had one;
  `SentInv` and `ForwardInv` follow a forwarded call through its part.

Steps towards a property of a run (`FlightInv`, `FollowInv`, `OutlineInv`, `PipeInv`, `GCInv`,
`FreezeInv`, `CheckedInv`), the type invariants, and properties that a theorem
establishes for every instance (`ConcurrencyBound`, `PeerProgress`,
`CompletedMeansAllQueried`, `NothingLeftRunning`, `Placement`, `TagsMatchTable`, `AnswerIsTrue`,
`FilterMatchesTable`, `IrreplaceableStays`, `WaitersInv`, `OldOnesTossed`,
`StreamImproves` and others) are not repeated in a run.

**Only model-checked:** the liveness properties (`LookupReturns`, `CallEnds`,
`ExpiredCollected`, `RefreshAnswered`, `BootstrapEnds`, `CloseEnds`,
`RequestEnds`, `SearchEnds`, `ProviderSearchEnds`, `DualEnds`, `ModeFollows`,
`StreamsEnd`), since liveness and `ENABLED` are out of the prover's reach;
and the violation run. Every safety property, action property and refinement of a
passing run is a theorem. Of the key space only what the theorems need is proved: that
`Distance` is a metric, for instance, is not stated.

## 5. Not modelled, and the plan

Abstracted on purpose: the SHA-256 of names (peers are given IDs), floating-point
`CalcKOpt` (any function of `KMaps`), timestamps that only feed logs. Of the refresh
bookkeeping the times are left out (when a cpl is due is a choice). The
single reads of a bucket slice without `tabLock` (`alpha` and `beta` in `query.go`) are
choices, not index operations.

Not modelled: lookup events, metrics and logging, which observe and change
nothing; the options, which are assignments before the DHT starts (what they
choose is a constant here); the address and peer filters, which are predicates
on addresses of `netroute`; the generated encoding of messages; saving peers of the
table in the peerstore; the harness of the test plan.

Done: the lookup, the table with its filter, measures, queries and refresh targets,
the senders, the loops with the refresh manager, the provider manager, the local
record, the value search, the provider search, the calls of a DHT and of the dual
DHT, and the server. Every safety property, action property and refinement of a passing
run is proved, and the abstract specifications that the compositions build on
(`TableOutline`, `LookupOutline`, `ProviderStream`) are each implemented by a detailed
one. What is left:

1. The liveness properties, which stay with TLC.
2. The lookups of `Calls` are one step; `LookupOutline` could stand in for it, as in the
   searches.
