---------------------------- MODULE StreamServer ----------------------------
(***************************************************************************)
(* The server side of a node: the streams other peers open to it           *)
(* (handleNewMessage in go-libp2p-kad-dht/dht_net.go), the handlers their  *)
(* requests are answered by (handlers.go, with the conversions of          *)
(* pb/message.go), and the switch between server and client mode that the  *)
(* reachability events of the host bring about (subscriber_notifee.go and  *)
(* setMode in dht.go), which resets the streams while they are served.     *)
(*                                                                         *)
(* A peer has at most one stream at a time.  A key is the peer it names.   *)
(* What PUT_VALUE does to the datastore behind GET_VALUE is ValueStore,    *)
(* that of providers is ProviderManager: here a record is left out and a   *)
(* provider is a member of a set.                                          *)
(***************************************************************************)
EXTENDS Node, Integers, Sequences, FiniteSets, FiniteSetsExt

CONSTANTS
    NoKey,              \* the empty key
    Remotes,            \* the peers that open streams
    enableValues, enableProviders,
    MaxEvents,          \* bound: the reachability events of a behaviour
    MaxRequests,        \* bound: the requests of a behaviour
    MaxNamed            \* bound: the peers a request names

ASSUME ServerAssumption ==
    /\ Self \notin Peers /\ NoKey \notin Peers \cup {Self}
    /\ Remotes \subseteq Peers
    /\ bucketSize \in Nat \ {0}
    /\ enableValues \in BOOLEAN /\ enableProviders \in BOOLEAN
    /\ MaxEvents \in Nat /\ MaxRequests \in Nat /\ MaxNamed \in Nat

\* A peer as a message names it: with addresses that decode, or none.
Named == [id : Peers, addrs : BOOLEAN]
Names(S) == {ps \in SUBSET S : Cardinality(ps) <= MaxNamed}

\* A request: its key, and the peers it names: providers if its handler looks at them,
\* closer peers if it returns them.
Requests ==
    [type : {"FIND_NODE"}, key : Peers \cup {Self, NoKey}, closer : {{}}, provs : {{}}]
        \cup [type : {"GET_VALUE", "GET_PROVIDERS"}, key : {Self, NoKey},
              closer : {{}}, provs : {{}}]
        \cup [type : {"ADD_PROVIDER"}, key : {Self}, closer : {{}}, provs : Names(Named)]
        \cup [type : {"ADD_PROVIDER", "PUT_VALUE"}, key : {NoKey}, closer : {{}}, provs : {{}}]
        \cup [type : {"PING", "PUT_VALUE"}, key : {Self},
              closer : Names([id : Remotes, addrs : {TRUE}]), provs : {{}}]

\* The part of an answer that is kept: its closer peers and its providers.
Responses ==
    [closer : SUBSET [id : Peers \cup {Self}, addrs : BOOLEAN], provs : SUBSET Named]

VARIABLES
    auto,           \* the ModeOpt the DHT was made with
    mode,           \* dht.mode
    handlers,       \* whether the host has the stream handlers
    switch,         \* how far setMode is; modeLk is held unless it is "unlocked"
    unseen,         \* the connections moveToClientMode has still to look at
    events,         \* the reachability events in the notifee's buffer
    latest,         \* the last of them that was emitted
    emitted,        \* their number
    stream,         \* stream[p]: where the goroutine of p's stream is
    reset,          \* reset[p]: the stream was reset
    inbox,          \* inbox[p]: what can be read from it, or is being handled
    resp,           \* resp[p]: the answer being written
    rt,             \* the members of the routing table
    addrs,          \* the peers whose addresses are in the peerstore
    providers,      \* the providers recorded for the key
    announced,      \* the peers that have announced themselves
    asked           \* the number of requests sent

modeVars == <<mode, handlers, switch, unseen>>
eventVars == <<auto, events, latest, emitted>>
streamVars == <<stream, reset, inbox, resp>>
storeVars == <<rt, addrs, providers>>
remoteVars == <<announced, asked>>
serverVars == <<modeVars, eventVars, streamVars, storeVars, remoteVars>>

Modes == {"ModeAuto", "ModeAutoServer", "ModeServer", "ModeClient"}
Reachabilities == {"private", "unknown", "public"}

NoInput == [type |-> "nothing"]
Garbage == [type |-> "garbage"]      \* bytes that are no message, or no type we know
EOF == [type |-> "EOF"]
NoResp == [closer |-> {}, provs |-> {}]

\* New: the mode the DHT starts in.
FirstMode == IF auto \in {"ModeAuto", "ModeClient"} THEN "client" ELSE "server"

\* Either nothing is known yet but the addresses of the peers that are
\* connected, or every peer is in the table and the others provide the key.
ServerInit ==
    /\ auto \in Modes
    /\ mode = FirstMode /\ handlers = (mode = "server")
    /\ switch = "unlocked" /\ unseen = {}
    /\ events = << >> /\ latest = "none" /\ emitted = 0
    /\ stream = [p \in Remotes |-> "none"] /\ reset = [p \in Remotes |-> FALSE]
    /\ inbox = [p \in Remotes |-> NoInput] /\ resp = [p \in Remotes |-> NoResp]
    /\ rt \in {{}, Peers} /\ addrs = Remotes
    /\ providers = rt \ Remotes /\ announced = providers
    /\ asked = 0
-----------------------------------------------------------------------------
(* The mode.                                                                *)

\* The host learns something of its reachability.  The notifee has subscribed
\* to that in the automatic modes only.
Emit(e) ==
    /\ auto \in {"ModeAuto", "ModeAutoServer"} /\ emitted < MaxEvents
    /\ events' = Append(events, e) /\ latest' = e /\ emitted' = emitted + 1
    /\ UNCHANGED <<auto, modeVars, streamVars, storeVars, remoteVars>>

\* Mutant: what is unknown is taken for private in every mode.
TargetUnknownPrivate(e) == IF e = "public" THEN "server" ELSE "client"

\* handleLocalReachabilityChangedEvent: the mode an event asks for.
Target(e) ==
    IF e = "public" \/ (e = "unknown" /\ auto = "ModeAutoServer") THEN "server" ELSE "client"

\* The notifee takes an event and calls setMode, which locks modeLk.
SetMode ==
    /\ events # << >> /\ switch = "unlocked"
    /\ events' = Tail(events)
    /\ LET m == Target(Head(events))
       IN  /\ mode' = m
           /\ switch' = IF m = mode THEN "unlocked" ELSE m
    /\ UNCHANGED <<auto, latest, emitted, handlers, unseen, streamVars, storeVars, remoteVars>>

\* moveToServerMode, after which setMode unlocks.
MoveToServerMode ==
    /\ switch = "server"
    /\ handlers' = TRUE /\ switch' = "unlocked"
    /\ UNCHANGED <<mode, unseen, eventVars, streamVars, storeVars, remoteVars>>

\* moveToClientMode: RemoveStreamHandler, then the connections are listed.
RemoveHandlers ==
    /\ switch = "client"
    /\ handlers' = FALSE /\ switch' = "resetting" /\ unseen' = Remotes
    /\ UNCHANGED <<mode, eventVars, streamVars, storeVars, remoteVars>>

\* A stream is reset if its protocol is known by now.
ResetStreams(p) ==
    /\ switch = "resetting" /\ p \in unseen
    /\ unseen' = unseen \ {p}
    /\ reset' = [reset EXCEPT ![p] = @ \/ stream[p] \notin {"none", "opening"}]
    /\ UNCHANGED <<mode, handlers, switch, eventVars, stream, inbox, resp, storeVars, remoteVars>>

Unlock ==
    /\ switch = "resetting" /\ unseen = {}
    /\ switch' = "unlocked"
    /\ UNCHANGED <<mode, handlers, unseen, eventVars, streamVars, storeVars, remoteVars>>
-----------------------------------------------------------------------------
(* What the peers and libp2p do with a stream.                              *)

\* libp2p finds the handler of a new stream, before it sets the protocol.
Open(p) ==
    /\ stream[p] = "none" /\ handlers
    /\ stream' = [stream EXCEPT ![p] = "opening"]
    /\ UNCHANGED <<reset, inbox, resp, modeVars, eventVars, storeVars, remoteVars>>

\* The protocol is set, and handleNewStream runs with the idle timer set.
HandleNewStream(p) ==
    /\ stream[p] = "opening"
    /\ stream' = [stream EXCEPT ![p] = "check"]
    /\ UNCHANGED <<reset, inbox, resp, modeVars, eventVars, storeVars, remoteVars>>

Announces(p, m) == m.type = "ADD_PROVIDER" /\ [id |-> p, addrs |-> TRUE] \in m.provs

\* What arrives before the goroutine reads makes no difference to it.
Request(p, m) ==
    /\ stream[p] = "read" /\ inbox[p] = NoInput /\ asked < MaxRequests
    /\ inbox' = [inbox EXCEPT ![p] = m] /\ asked' = asked + 1
    /\ announced' = IF Announces(p, m) THEN announced \cup {p} ELSE announced
    /\ UNCHANGED <<stream, reset, resp, modeVars, eventVars, storeVars>>

\* The peer closes its side.
CloseWrite(p) ==
    /\ stream[p] = "read" /\ inbox[p] = NoInput
    /\ inbox' = [inbox EXCEPT ![p] = EOF]
    /\ UNCHANGED <<stream, reset, resp, modeVars, eventVars, storeVars, remoteVars>>

\* Mutant: the timer runs only until the first request is read.
IdleWhileReading(p) ==
    /\ stream[p] = "read" /\ ~reset[p]
    /\ reset' = [reset EXCEPT ![p] = TRUE]
    /\ UNCHANGED <<stream, inbox, resp, modeVars, eventVars, storeVars, remoteVars>>

\* dhtStreamIdleTimeout has passed since the last request, or the peer has
\* reset the stream, or the connection is lost.
Idle(p) ==
    /\ stream[p] \notin {"none", "opening"} /\ ~reset[p]
    /\ reset' = [reset EXCEPT ![p] = TRUE]
    /\ UNCHANGED <<stream, inbox, resp, modeVars, eventVars, storeVars, remoteVars>>
-----------------------------------------------------------------------------
(* The handlers.  A handler returns an error, or its answer if it has one.  *)

\* Mutant: the peer that asks is not left out.
betterPeersWithAsker(closer, from) == IF Self \in closer THEN {} ELSE closer

\* betterPeersToQuery, given the answer of the table.
betterPeersToQuery(closer, from) == IF Self \in closer THEN {} ELSE closer \ {from}

\* PeerInfosToPBPeers: every peer with its addresses.  The connection type is
\* set on a copy of the entry, so an answer never says that a peer is connected.
PBPeers(ps) == [id : ps \cap addrs, addrs : {TRUE}] \cup [id : ps \ addrs, addrs : {FALSE}]

handleFindPeer(from, key, closer) ==
    LET closest == IF key = Self THEN {Self}
                   ELSE betterPeersToQuery(closer, from) \cup ({key} \ {from})
    IN  [err |-> key = NoKey,
         resp |-> [closer |-> PBPeers(closest \cap (addrs \cup {Self})), provs |-> {}]]

handleGetValue(from, key, closer) ==
    [err |-> key = NoKey,
     resp |-> [closer |-> PBPeers(betterPeersToQuery(closer, from)), provs |-> {}]]

handleGetProviders(from, key, closer) ==
    [err |-> key = NoKey,
     resp |-> [closer |-> PBPeers(betterPeersToQuery(closer, from)), provs |-> PBPeers(providers)]]

\* Mutant: a provider is believed whoever announces it.
AcceptedFromAll(from, m) == {pi \in m.provs : pi.addrs}

\* handleAddProvider: the entries of a request that are recorded.
Accepted(from, m) == {pi \in m.provs : pi.id = from /\ pi.addrs}

\* handlePing and handlePutValue return the request, with all the peers it names.
Echo(m) == [closer |-> m.closer, provs |-> m.provs]

\* handlerForMsgType: the types of requests that have a handler here.
Handled ==
    {"FIND_NODE", "PING"}
        \cup (IF enableValues THEN {"GET_VALUE", "PUT_VALUE"} ELSE {})
        \cup (IF enableProviders THEN {"ADD_PROVIDER", "GET_PROVIDERS"} ELSE {})
-----------------------------------------------------------------------------
(* handleNewMessage.                                                        *)

StreamAt(p, l) == stream' = [stream EXCEPT ![p] = l]

\* handleNewStream closes or resets the stream at the end, both for good.
End(p) ==
    /\ StreamAt(p, "none")
    /\ reset' = [reset EXCEPT ![p] = FALSE]
    /\ inbox' = [inbox EXCEPT ![p] = NoInput]
    /\ resp' = [resp EXCEPT ![p] = NoResp]

\* Mutant: the mode is not looked at.
GetModeIgnored(p) ==
    /\ stream[p] = "check" /\ switch = "unlocked"
    /\ StreamAt(p, "read") /\ UNCHANGED <<reset, inbox, resp>>
    /\ UNCHANGED <<modeVars, eventVars, storeVars, remoteVars>>

\* getMode waits for modeLk.
GetMode(p) ==
    /\ stream[p] = "check" /\ switch = "unlocked"
    /\ IF mode = "server" THEN StreamAt(p, "read") /\ UNCHANGED <<reset, inbox, resp>>
                           ELSE End(p)
    /\ UNCHANGED <<modeVars, eventVars, storeVars, remoteVars>>

\* ReadMsg fails, finds the end of the stream, or what is no request to us.
ReadEnds(p) ==
    /\ stream[p] = "read"
    /\ \/ reset[p]
       \/ inbox[p] # NoInput /\ inbox[p].type \notin Handled
    /\ End(p)
    /\ UNCHANGED <<modeVars, eventVars, storeVars, remoteVars>>

\* A request is read.  peerFound passes the peer to rtPeerLoop, which may add
\* it to the table.
ReadMsg(p) ==
    /\ stream[p] = "read" /\ ~reset[p] /\ inbox[p].type \in Handled
    /\ StreamAt(p, "handle")
    /\ rt' \in {rt, rt \cup {p}}
    /\ UNCHANGED <<reset, inbox, resp, addrs, providers, modeVars, eventVars, remoteVars>>

\* The answer is r: an error ends the stream.
Respond(p, r) ==
    /\ IF r.err THEN End(p)
       ELSE /\ StreamAt(p, "write")
            /\ resp' = [resp EXCEPT ![p] = r.resp]
            /\ UNCHANGED <<reset, inbox>>
    /\ UNCHANGED <<storeVars, modeVars, eventVars, remoteVars>>

\* What NearestPeers may answer with: at least the bucketSize nearest peers of the
\* table (NearestComplete), or all it has.
Nearest == {S \in SUBSET rt : Cardinality(S) >= Min({bucketSize, Cardinality(rt)})}

HandleFindPeer(p) ==
    /\ stream[p] = "handle" /\ inbox[p].type = "FIND_NODE"
    /\ \E closer \in Nearest : Respond(p, handleFindPeer(p, inbox[p].key, closer))

\* checkLocalDatastore may fail.
HandleGetValue(p) ==
    /\ stream[p] = "handle" /\ inbox[p].type = "GET_VALUE"
    /\ \/ \E closer \in Nearest : Respond(p, handleGetValue(p, inbox[p].key, closer))
       \/ Respond(p, [err |-> TRUE, resp |-> NoResp])

HandleGetProviders(p) ==
    /\ stream[p] = "handle" /\ inbox[p].type = "GET_PROVIDERS"
    /\ \E closer \in Nearest : Respond(p, handleGetProviders(p, inbox[p].key, closer))

HandlePing(p) ==
    /\ stream[p] = "handle" /\ inbox[p].type = "PING"
    /\ Respond(p, [err |-> FALSE, resp |-> Echo(inbox[p])])

\* The record is refused or cannot be stored, or it is stored.
HandlePutValue(p) ==
    /\ stream[p] = "handle" /\ inbox[p].type = "PUT_VALUE"
    /\ \E err \in BOOLEAN :
        /\ inbox[p].key = NoKey => err
        /\ Respond(p, [err |-> err, resp |-> Echo(inbox[p])])

\* No answer is sent.
HandleAddProvider(p) ==
    /\ stream[p] = "handle" /\ inbox[p].type = "ADD_PROVIDER"
    /\ LET new == {pi.id : pi \in Accepted(p, inbox[p])}
       IN  IF inbox[p].key = NoKey THEN End(p) /\ UNCHANGED <<addrs, providers>>
           ELSE /\ providers' = providers \cup new
                /\ addrs' = addrs \cup new
                /\ StreamAt(p, "check")
                /\ inbox' = [inbox EXCEPT ![p] = NoInput]
                /\ UNCHANGED <<reset, resp>>
    /\ UNCHANGED <<rt, modeVars, eventVars, remoteVars>>

\* writeMsg, which has no deadline of its own.
Write(p) ==
    /\ stream[p] = "write" /\ ~reset[p]
    /\ StreamAt(p, "check")
    /\ inbox' = [inbox EXCEPT ![p] = NoInput]
    /\ resp' = [resp EXCEPT ![p] = NoResp]
    /\ UNCHANGED <<reset, modeVars, eventVars, storeVars, remoteVars>>

WriteFails(p) ==
    /\ stream[p] = "write" /\ reset[p]
    /\ End(p)
    /\ UNCHANGED <<modeVars, eventVars, storeVars, remoteVars>>
-----------------------------------------------------------------------------
Notifee == SetMode \/ MoveToServerMode \/ RemoveHandlers \/ Unlock \/ \E p \in Remotes : ResetStreams(p)

Handle(p) ==
    \/ HandleFindPeer(p) \/ HandleGetValue(p) \/ HandleGetProviders(p)
    \/ HandlePing(p) \/ HandlePutValue(p) \/ HandleAddProvider(p)

\* The steps of the goroutine of a stream that do not wait for the peer.
Serve(p) ==
    \/ HandleNewStream(p) \/ GetMode(p) \/ ReadEnds(p) \/ ReadMsg(p)
    \/ Handle(p) \/ WriteFails(p)

ServerNext ==
    \/ Notifee
    \/ \E e \in Reachabilities : Emit(e)
    \/ \E p \in Remotes :
        \/ Serve(p) \/ Write(p) \/ Idle(p)
        \/ Open(p) \/ CloseWrite(p)
        \/ \E m \in Requests \cup {Garbage} : Request(p, m)

ServerSpec == ServerInit /\ [][ServerNext]_serverVars

\* The goroutines run and the idle timer fires; the peers need not do anything,
\* nor read what is written to them.
ServerFairness ==
    /\ WF_serverVars(Notifee)
    /\ \A p \in Remotes : WF_serverVars(Serve(p)) /\ WF_serverVars(Idle(p))

ServerFairSpec == ServerSpec /\ ServerFairness
-----------------------------------------------------------------------------
ServerTypeOK ==
    /\ auto \in Modes /\ events \in Seq(Reachabilities)
    /\ mode \in {"server", "client"} /\ handlers \in BOOLEAN
    /\ switch \in {"unlocked", "server", "client", "resetting"} /\ unseen \subseteq Remotes
    /\ stream \in [Remotes -> {"none", "opening", "check", "read", "handle", "write"}]
    /\ reset \in [Remotes -> BOOLEAN]
    /\ inbox \in [Remotes -> Requests \cup {NoInput, Garbage, EOF}]
    /\ resp \in [Remotes -> Responses]
    /\ rt \subseteq Peers /\ addrs \subseteq Peers
    /\ providers \subseteq Peers /\ announced \subseteq Peers

(* Once setMode has moved to client mode no stream is left that would be     *)
(* served: one that waits for a request, or has one in hand, was reset, be   *)
(* it one that libp2p was just opening when the streams were reset.  And     *)
(* the host offers the protocol in server mode only.                         *)
NotServedAsClient ==
    switch = "unlocked" =>
        /\ handlers <=> mode = "server"
        /\ mode = "client" =>
              \A p \in Remotes : stream[p] \in {"read", "handle", "write"} => reset[p]

(* handleAddProvider records a peer as a provider only if that peer has      *)
(* announced itself, whatever other peers say of it.                         *)
OnlyOriginators == providers \subseteq announced

(* The closer peers that a handler chooses never name the peer that asked,   *)
(* and those of an answer to FIND_NODE all come with addresses               *)
(* (handleFindPeer: "Never tell a peer about itself", "we'll prune this      *)
(* peer").  handlePing and handlePutValue choose none: they return the       *)
(* peers that the request names, be it the sender.                           *)
AnswersFit ==
    \A p \in Remotes : stream[p] = "write" /\ inbox[p].type \notin {"PING", "PUT_VALUE"} =>
        \A pi \in resp[p].closer :
            /\ pi.id # p
            /\ inbox[p].type = "FIND_NODE" => pi.addrs \/ pi.id = Self

(* When no event comes any more the mode is in the end the one that the last *)
(* event asks for, where an unknown reachability asks for the mode the DHT   *)
(* started in; and without events it stays what it was.                      *)
ModeFollows ==
    LET wanted == CASE latest = "public"  -> "server"
                    [] latest = "private" -> "client"
                    [] OTHER -> FirstMode
    IN  <>[](switch = "unlocked" /\ mode = wanted /\ handlers = (wanted = "server"))

(* A stream never stays for ever: its idle timer ends it, even if the peer   *)
(* neither asks, nor reads the answer, nor closes it.                        *)
StreamsEnd == \A p \in Remotes : stream[p] # "none" ~> stream[p] = "none"
=============================================================================
