--------------------------- MODULE ServiceProofs ---------------------------
(***************************************************************************)
(* Theorems on what a node does for others: the streams it serves          *)
(* (StreamServer), the provider search it runs for its callers             *)
(* (ProviderSearch), and the calls on the dual DHT (Dual).  The three are  *)
(* independent of each other; a theorem is about one of them.              *)
(***************************************************************************)
EXTENDS ProviderSearch, StreamServer, Dual, FiniteSetTheorems, TLAPS
-----------------------------------------------------------------------------
(* The server side of a node.                                               *)

\* The answers of the handlers are of the type of resp.
LEMMA AnswerTypes ==
    ASSUME ServerTypeOK, NEW p \in Remotes,
           NEW m \in Requests, NEW closer \in Nearest
    PROVE  /\ handleFindPeer(p, m.key, closer).resp \in Responses
           /\ handleGetValue(p, m.key, closer).resp \in Responses
           /\ handleGetProviders(p, m.key, closer).resp \in Responses
<1> DEFINE Entries == [id : Peers \cup {Self}, addrs : BOOLEAN]
<1> USE ServerAssumption DEF ServerTypeOK
<1>1. \A S \in SUBSET Peers : PBPeers(S) \subseteq Named
  BY DEF PBPeers, Named
<1>2. \A S \in SUBSET (Peers \cup {Self}) : PBPeers(S) \subseteq Entries
  BY DEF PBPeers
<1>3. betterPeersToQuery(closer, p) \subseteq Peers
  BY DEF betterPeersToQuery, Nearest
<1>4. handleFindPeer(p, m.key, closer).resp.closer \subseteq Entries
  <2> DEFINE chosen == IF m.key = Self THEN {Self}
                        ELSE betterPeersToQuery(closer, p) \cup ({m.key} \ {p})
  <2>1. chosen \cap (addrs \cup {Self}) \in SUBSET (Peers \cup {Self})
    OBVIOUS
  <2> HIDE DEF chosen
  <2>2. PBPeers(chosen \cap (addrs \cup {Self})) \subseteq Entries
    BY <1>2, <2>1
  <2> QED
    BY <2>2 DEF handleFindPeer, chosen
<1>5. PBPeers(betterPeersToQuery(closer, p)) \subseteq Entries
  BY <1>2, <1>3
<1>6. PBPeers(providers) \subseteq Named
  BY <1>1
<1> QED
  BY <1>4, <1>5, <1>6 DEF handleFindPeer, handleGetValue,
     handleGetProviders, Responses

\* The empty response is a response.
LEMMA NoRespType == NoResp \in Responses
  BY DEF NoResp, Responses

\* A request that is sent back is a response.
LEMMA EchoType ==
    ASSUME NEW m \in Requests
    PROVE  Echo(m) \in Responses
<1>1. m.closer \subseteq [id : Peers \cup {Self}, addrs : BOOLEAN]
  BY ServerAssumption DEF Requests, Names
<1>2. m.provs \subseteq Named
  BY DEF Requests, Names
<1> QED
  BY <1>1, <1>2 DEF Echo, Responses

\* The types of what a stream keeps.
StreamTypes ==
    /\ stream \in [Remotes -> {"none", "opening", "check", "read", "handle", "write"}]
    /\ reset \in [Remotes -> BOOLEAN]
    /\ inbox \in [Remotes -> Requests \cup {NoInput, Garbage, EOF}]
    /\ resp \in [Remotes -> Responses]

\* What a stream keeps stays well-typed when it ends.
LEMMA EndTypes ==
    ASSUME StreamTypes, NEW p \in Remotes, End(p)
    PROVE  StreamTypes'
  BY NoRespType DEF StreamTypes, End, StreamAt

\* Every step of the server keeps the types.
LEMMA ServerTypeStep ==
    ASSUME ServerTypeOK, [ServerNext]_serverVars
    PROVE  ServerTypeOK'
<1> USE ServerAssumption DEF ServerTypeOK, modeVars, eventVars,
        streamVars, storeVars, remoteVars, NoInput,
        Garbage, EOF
<1>1. CASE SetMode
  BY <1>1 DEF SetMode, Target
<1>2. CASE MoveToServerMode
  BY <1>2 DEF MoveToServerMode
<1>3. CASE RemoveHandlers
  BY <1>3 DEF RemoveHandlers
<1>4. CASE Unlock
  BY <1>4 DEF Unlock
<1>5. ASSUME NEW p \in Remotes, ResetStreams(p) PROVE ServerTypeOK'
  BY <1>5 DEF ResetStreams
<1>6. ASSUME NEW e \in Reachabilities, Emit(e) PROVE ServerTypeOK'
  BY <1>6 DEF Emit
<1>7. ASSUME NEW p \in Remotes, Serve(p) PROVE ServerTypeOK'
  <2> USE DEF StreamAt, End
  <2>1. CASE HandleNewStream(p)
    BY <2>1 DEF HandleNewStream
  <2>2. CASE GetMode(p)
    <3>1. CASE mode = "server"
      BY <2>2, <3>1 DEF GetMode
    <3>2. CASE mode # "server"
      BY <2>2, <3>2, EndTypes DEF GetMode, StreamTypes
    <3> QED
      BY <3>1, <3>2
  <2>3. CASE ReadEnds(p)
    BY <2>3, NoRespType DEF ReadEnds
  <2>4. CASE ReadMsg(p)
    BY <2>4 DEF ReadMsg
  <2>5. CASE HandleFindPeer(p) \/ HandleGetValue(p) \/ HandleGetProviders(p)
              \/ HandlePing(p) \/ HandlePutValue(p)
    <3>1. inbox[p] \in Requests
      BY <2>5 DEF HandleFindPeer, HandleGetValue, HandleGetProviders,
                  HandlePing, HandlePutValue
    <3>2. PICK r : Respond(p, r) /\ r.resp \in Responses
      <4>1. CASE HandleFindPeer(p)
        BY <4>1, <3>1, AnswerTypes DEF HandleFindPeer
      <4>2. CASE HandleGetValue(p)
        BY <4>2, <3>1, AnswerTypes, NoRespType DEF HandleGetValue
      <4>3. CASE HandleGetProviders(p)
        BY <4>3, <3>1, AnswerTypes DEF HandleGetProviders
      <4>4. CASE HandlePing(p)
        BY <4>4, <3>1, EchoType DEF HandlePing
      <4>5. CASE HandlePutValue(p)
        BY <4>5, <3>1, EchoType DEF HandlePutValue
      <4> QED
        BY <2>5, <4>1, <4>2, <4>3, <4>4, <4>5
    <3>3. CASE r.err
      BY <3>2, <3>3, EndTypes DEF Respond, StreamTypes
    <3>4. CASE ~r.err
      BY <3>2, <3>4 DEF Respond
    <3> QED
      BY <3>3, <3>4
  <2>6. CASE HandleAddProvider(p)
    <3>1. {info.id : info \in Accepted(p, inbox[p])} \subseteq Peers
      BY DEF Accepted
    <3>2. providers' \subseteq Peers /\ addrs' \subseteq Peers
      BY <2>6, <3>1 DEF HandleAddProvider
    <3>3. CASE inbox[p].key = NoKey
      BY <2>6, <3>3, EndTypes DEF HandleAddProvider, StreamTypes
    <3>4. CASE inbox[p].key # NoKey
      BY <2>6, <3>2, <3>4 DEF HandleAddProvider
    <3> QED
      BY <3>3, <3>4
  <2>7. CASE WriteFails(p)
    BY <2>7, NoRespType DEF WriteFails
  <2> QED
    BY <1>7, <2>1, <2>2, <2>3, <2>4, <2>5, <2>6, <2>7 DEF Serve, Handle
<1>8. ASSUME NEW p \in Remotes, Write(p) \/ Idle(p) \/ Open(p) \/ CloseWrite(p)
      PROVE  ServerTypeOK'
  BY <1>8, NoRespType DEF Write, Idle, Open, CloseWrite, StreamAt
<1>9. ASSUME NEW p \in Remotes, NEW m \in Requests \cup {Garbage}, Request(p, m)
      PROVE  ServerTypeOK'
  BY <1>9 DEF Request
<1>10. CASE UNCHANGED serverVars
  BY <1>10 DEF serverVars
<1> QED
  BY <1>1, <1>2, <1>3, <1>4, <1>5, <1>6, <1>7, <1>8, <1>9, <1>10 DEF ServerNext, Notifee

\* The server keeps the types of its variables.
THEOREM ServerTypeCorrect == ServerSpec => []ServerTypeOK
<1>1. ServerInit => ServerTypeOK
  BY NoRespType, ServerAssumption DEF ServerInit, ServerTypeOK, FirstMode
<1>2. ServerTypeOK /\ [ServerNext]_serverVars => ServerTypeOK'
  BY ServerTypeStep
<1> QED
  BY <1>1, <1>2, PTL DEF ServerSpec

\* Why no stream is served in client mode: one that is past its check of the mode, and was
\* not reset, has either seen the server mode or is still to be reset by the switch under way.
Served == {"read", "handle", "write"}
SwitchInv ==
    /\ switch = "unlocked" => (handlers <=> mode = "server")
    /\ switch = "server" => mode = "server"
    /\ switch \in {"client", "resetting"} => mode = "client"
    /\ switch = "resetting" => ~handlers
    /\ \A p \in Remotes : stream[p] \in Served /\ ~reset[p] =>
            mode = "server" \/ switch = "client" \/ (switch = "resetting" /\ p \in unseen)

\* A step that leaves the mode and its switch alone, and serves no stream anew.
LEMMA SwitchKept ==
    ASSUME SwitchInv, UNCHANGED modeVars,
           \A q \in Remotes : stream'[q] \in Served /\ ~reset'[q] =>
                mode = "server" \/ (stream[q] \in Served /\ ~reset[q])
    PROVE  SwitchInv'
  BY DEF SwitchInv, modeVars

\* The host offers the protocol, and streams are served, in server mode only.
THEOREM ClientsServeNobody == ServerSpec => []NotServedAsClient
<1>1. ServerInit => SwitchInv
  BY DEF ServerInit, SwitchInv, Served
<1>2. ServerTypeOK /\ SwitchInv /\ [ServerNext]_serverVars => SwitchInv'
  <2> SUFFICES ASSUME ServerTypeOK, SwitchInv, [ServerNext]_serverVars PROVE SwitchInv'
    OBVIOUS
  <2> USE DEF ServerTypeOK, streamVars
  <2>1. CASE SetMode
    BY <2>1 DEF SetMode, Target, SwitchInv
  <2>2. CASE MoveToServerMode
    BY <2>2 DEF MoveToServerMode, SwitchInv
  <2>3. CASE RemoveHandlers
    BY <2>3 DEF RemoveHandlers, SwitchInv
  <2>4. CASE Unlock
    BY <2>4 DEF Unlock, SwitchInv
  <2>5. ASSUME NEW p \in Remotes, ResetStreams(p) PROVE SwitchInv'
    BY <2>5 DEF ResetStreams, SwitchInv, Served
  <2>6. ASSUME NEW e \in Reachabilities, Emit(e) PROVE SwitchInv'
    BY <2>6, SwitchKept DEF Emit
  <2>7. ASSUME NEW p \in Remotes, Serve(p) PROVE SwitchInv'
    <3>1. UNCHANGED modeVars
      BY <2>7 DEF Serve, Handle, HandleNewStream, GetMode,
         ReadEnds, ReadMsg, HandleFindPeer, HandleGetValue,
         HandleGetProviders, HandlePing, HandlePutValue,
         HandleAddProvider, WriteFails, Respond, modeVars
    <3>2. \A q \in Remotes : stream'[q] \in Served /\ ~reset'[q] =>
              mode = "server" \/ (stream[q] \in Served /\ ~reset[q])
      <4> USE DEF StreamAt, End, Served
      <4>1. CASE HandleNewStream(p)
        BY <4>1 DEF HandleNewStream
      <4>2. CASE GetMode(p)
        BY <4>2 DEF GetMode
      <4>3. CASE ReadEnds(p) \/ ReadMsg(p) \/ WriteFails(p)
        BY <4>3 DEF ReadEnds, ReadMsg, WriteFails
      <4>4. CASE HandleFindPeer(p) \/ HandleGetValue(p)
                  \/ HandleGetProviders(p) \/ HandlePing(p) \/ HandlePutValue(p)
        <5>1. stream[p] = "handle" /\ \E r : Respond(p, r)
          BY <4>4 DEF HandleFindPeer, HandleGetValue, HandleGetProviders,
             HandlePing, HandlePutValue
        <5> QED
          BY <5>1 DEF Respond
      <4>5. CASE HandleAddProvider(p)
        BY <4>5 DEF HandleAddProvider
      <4> QED
        BY <2>7, <4>1, <4>2, <4>3, <4>4, <4>5 DEF Serve, Handle
    <3> QED
      BY <3>1, <3>2, SwitchKept
  <2>8. ASSUME NEW p \in Remotes, Write(p) \/ Idle(p) \/ Open(p) \/ CloseWrite(p)
        PROVE  SwitchInv'
    BY <2>8, SwitchKept DEF Write, Idle, Open, CloseWrite,
       StreamAt, Served
  <2>9. ASSUME NEW p \in Remotes, NEW m \in Requests \cup {Garbage}, Request(p, m)
        PROVE  SwitchInv'
    BY <2>9, SwitchKept DEF Request
  <2>10. CASE UNCHANGED serverVars
    BY <2>10, SwitchKept DEF serverVars
  <2> QED
    BY <2>1, <2>2, <2>3, <2>4, <2>5, <2>6, <2>7, <2>8, <2>9, <2>10 DEF ServerNext, Notifee
<1>3. ServerTypeOK /\ SwitchInv => NotServedAsClient
  BY DEF ServerTypeOK, SwitchInv, Served, NotServedAsClient
<1> QED
  BY <1>1, <1>2, <1>3, ServerTypeCorrect, PTL DEF ServerSpec

\* What is announced in a request that still has to be handled counts as announced.
OriginInv ==
    /\ OnlyOriginators
    /\ \A p \in Remotes : Announces(p, inbox[p]) => p \in announced

\* A step that records no provider and brings no request.
LEMMA OriginKept ==
    ASSUME OriginInv, UNCHANGED providers, announced \subseteq announced',
           \A q \in Remotes : inbox'[q] = inbox[q] \/ inbox'[q].type # "ADD_PROVIDER"
    PROVE  OriginInv'
  BY DEF OriginInv, OnlyOriginators, Announces

\* Only a peer that has announced itself is recorded as a provider.
THEOREM ProvidersAnnouncedThemselves == ServerSpec => []OnlyOriginators
<1>1. ServerInit => OriginInv
  BY DEF ServerInit, OriginInv, OnlyOriginators, Announces, NoInput
<1>2. ServerTypeOK /\ OriginInv /\ [ServerNext]_serverVars => OriginInv'
  <2> SUFFICES ASSUME ServerTypeOK, OriginInv, [ServerNext]_serverVars PROVE OriginInv'
    OBVIOUS
  <2> USE DEF ServerTypeOK, NoInput, Garbage, EOF
  <2>1. ASSUME NEW p \in Remotes, NEW m \in Requests \cup {Garbage}, Request(p, m)
        PROVE  OriginInv'
    BY <2>1 DEF Request, OriginInv, OnlyOriginators, Announces, storeVars
  <2>2. ASSUME NEW p \in Remotes, HandleAddProvider(p) PROVE OriginInv'
    <3>1. \A info \in Accepted(p, inbox[p]) : info.id \in announced
      <4> SUFFICES ASSUME NEW info \in Accepted(p, inbox[p]) PROVE info.id \in announced
        OBVIOUS
      <4>1. inbox[p] \in Requests
        BY <2>2 DEF HandleAddProvider
      <4>2. info \in Named /\ info \in inbox[p].provs
        BY <4>1 DEF Accepted, Requests, Names
      <4>3. info = [id |-> p, addrs |-> TRUE]
        BY <4>2 DEF Accepted, Named
      <4>4. Announces(p, inbox[p])
        BY <2>2, <4>2, <4>3 DEF Announces, HandleAddProvider
      <4> QED
        BY <4>3, <4>4 DEF OriginInv
    <3>2. providers' \subseteq announced /\ announced' = announced
      BY <2>2, <3>1 DEF HandleAddProvider, remoteVars, OriginInv, OnlyOriginators
    <3>3. \A q \in Remotes : inbox'[q] = inbox[q] \/ inbox'[q].type # "ADD_PROVIDER"
      BY <2>2 DEF HandleAddProvider, End
    <3> QED
      BY <3>2, <3>3 DEF OriginInv, OnlyOriginators, Announces
  <2>3. CASE Notifee \/ \E e \in Reachabilities : Emit(e)
    BY <2>3, OriginKept DEF Notifee, Emit, SetMode, MoveToServerMode,
       RemoveHandlers, Unlock, ResetStreams, streamVars,
       storeVars, remoteVars
  <2>4. ASSUME NEW p \in Remotes,
               \/ HandleNewStream(p) \/ GetMode(p) \/ ReadEnds(p)
               \/ ReadMsg(p) \/ WriteFails(p) \/ Write(p)
               \/ Idle(p) \/ Open(p) \/ CloseWrite(p)
        PROVE  OriginInv'
    BY <2>4, OriginKept DEF HandleNewStream, GetMode, ReadEnds, ReadMsg,
       WriteFails, Write, Idle, Open, CloseWrite, End,
       storeVars, remoteVars
  <2>5. ASSUME NEW p \in Remotes, NEW r, Respond(p, r) PROVE OriginInv'
    BY <2>5, OriginKept DEF Respond, End, storeVars, remoteVars
  <2>6. CASE UNCHANGED serverVars
    BY <2>6, OriginKept DEF serverVars, streamVars, storeVars, remoteVars
  <2>7. ASSUME NEW p \in Remotes,
               \/ HandleFindPeer(p) \/ HandleGetValue(p)
               \/ HandleGetProviders(p) \/ HandlePing(p) \/ HandlePutValue(p)
        PROVE  \E r : Respond(p, r)
    BY <2>7 DEF HandleFindPeer, HandleGetValue, HandleGetProviders,
       HandlePing, HandlePutValue
  <2> QED
    BY <2>1, <2>2, <2>3, <2>4, <2>5, <2>6, <2>7 DEF ServerNext, Serve, Handle
<1>3. OriginInv => OnlyOriginators
  BY DEF OriginInv
<1> QED
  BY <1>1, <1>2, <1>3, ServerTypeCorrect, PTL DEF ServerSpec

\* What AnswersFit says of the answer with the closer peers c to a request of type t.
Fits(p, t, c) ==
    t \notin {"PING", "PUT_VALUE"} =>
        \A info \in c : info.id # p /\ (t = "FIND_NODE" => info.addrs \/ info.id = Self)

\* The handlers that choose closer peers leave out the peer that asks, and that of FIND_NODE
\* the peers without addresses.
LEMMA HandlersFit ==
    ASSUME ServerTypeOK, NEW p \in Remotes,
           NEW m \in Requests, NEW closer \in Nearest, NEW t
    PROVE  /\ Fits(p, t, handleFindPeer(p, m.key, closer).resp.closer)
           /\ t # "FIND_NODE" => Fits(p, t, handleGetValue(p, m.key, closer).resp.closer)
           /\ t # "FIND_NODE" => Fits(p, t, handleGetProviders(p, m.key, closer).resp.closer)
<1>1. p # Self
  BY ServerAssumption
<1>2. p \notin betterPeersToQuery(closer, p)
  BY DEF betterPeersToQuery
<1>3. ASSUME NEW S, NEW info \in PBPeers(S) PROVE info.id \in S /\ (info.id \in addrs => info.addrs)
  BY <1>3 DEF PBPeers
<1>4. Fits(p, t, handleFindPeer(p, m.key, closer).resp.closer)
  <2> DEFINE chosen == IF m.key = Self THEN {Self}
                        ELSE betterPeersToQuery(closer, p) \cup ({m.key} \ {p})
             S == chosen \cap (addrs \cup {Self})
  <2>1. p \notin S /\ S \subseteq addrs \cup {Self}
    BY <1>1, <1>2
  <2>2. handleFindPeer(p, m.key, closer).resp.closer = PBPeers(S)
    BY DEF handleFindPeer
  <2> HIDE DEF S
  <2> QED
    BY <1>3, <2>1, <2>2 DEF Fits
<1>5. t # "FIND_NODE" => Fits(p, t, PBPeers(betterPeersToQuery(closer, p)))
  BY <1>2, <1>3 DEF Fits
<1> QED
  BY <1>4, <1>5 DEF handleGetValue, handleGetProviders

\* The closer peers that a handler chooses, in the answers to all requests but those that are
\* sent back (PING and PUT_VALUE), never name the peer that asked; those of an answer to
\* FIND_NODE come with addresses.
THEOREM AnswersAreFit == ServerSpec => []AnswersFit
<1>1. ServerInit => AnswersFit
  BY DEF ServerInit, AnswersFit
<1>2. ServerTypeOK /\ AnswersFit /\ [ServerNext]_serverVars => AnswersFit'
  <2> SUFFICES ASSUME ServerTypeOK, AnswersFit, [ServerNext]_serverVars
               PROVE  AnswersFit'
    OBVIOUS
  <2> USE DEF ServerTypeOK
  <2>1. ASSUME \A q \in Remotes : stream'[q] = "write" =>
                   stream[q] = "write" /\ inbox'[q] = inbox[q] /\ resp'[q] = resp[q]
        PROVE  AnswersFit'
    BY <2>1 DEF AnswersFit
  <2>2. CASE Notifee \/ \E e \in Reachabilities : Emit(e)
    BY <2>1, <2>2 DEF Notifee, Emit, SetMode, MoveToServerMode,
       RemoveHandlers, Unlock, ResetStreams, streamVars
  <2>3. ASSUME NEW p \in Remotes,
               \/ HandleNewStream(p) \/ GetMode(p) \/ ReadEnds(p)
               \/ ReadMsg(p) \/ WriteFails(p) \/ Write(p)
               \/ Idle(p) \/ Open(p) \/ CloseWrite(p)
               \/ HandleAddProvider(p)
        PROVE  AnswersFit'
    BY <2>1, <2>3 DEF HandleNewStream, GetMode, ReadEnds, ReadMsg,
       WriteFails, Write, Idle, Open, CloseWrite,
       HandleAddProvider, End, StreamAt
  <2>4. ASSUME NEW p \in Remotes, NEW m \in Requests \cup {Garbage}, Request(p, m)
        PROVE  AnswersFit'
    BY <2>1, <2>4 DEF Request
  <2>5. ASSUME NEW p \in Remotes, NEW r, Respond(p, r),
               Fits(p, inbox[p].type, r.resp.closer)
        PROVE  AnswersFit'
    <3>1. CASE r.err
      BY <2>1, <2>5, <3>1 DEF Respond, End, StreamAt
    <3>2. CASE ~r.err
      BY <2>5, <3>2 DEF Respond, StreamAt, AnswersFit, Fits
    <3> QED
      BY <3>1, <3>2
  <2>6. ASSUME NEW p \in Remotes,
               \/ HandleFindPeer(p) \/ HandleGetValue(p)
               \/ HandleGetProviders(p) \/ HandlePing(p) \/ HandlePutValue(p)
        PROVE  \E r : Respond(p, r) /\ Fits(p, inbox[p].type, r.resp.closer)
    <3>1. inbox[p] \in Requests
      BY <2>6 DEF HandleFindPeer, HandleGetValue, HandleGetProviders,
                  HandlePing, HandlePutValue, NoInput, Garbage, EOF
    <3>2. Fits(p, inbox[p].type, NoResp.closer)
      BY DEF Fits, NoResp
    <3>3. CASE HandleFindPeer(p)
      BY <3>1, <3>3, HandlersFit DEF HandleFindPeer
    <3>4. CASE HandleGetValue(p)
      <4>1. CASE Respond(p, [err |-> TRUE, resp |-> NoResp])
        BY <3>2, <4>1
      <4>2. ASSUME NEW closer \in Nearest,
                   Respond(p, handleGetValue(p, inbox[p].key, closer))
            PROVE  \E r : Respond(p, r) /\ Fits(p, inbox[p].type, r.resp.closer)
        BY <3>1, <3>4, <4>2, HandlersFit DEF HandleGetValue
      <4> QED
        BY <3>4, <4>1, <4>2 DEF HandleGetValue
    <3>5. CASE HandleGetProviders(p)
      BY <3>1, <3>5, HandlersFit DEF HandleGetProviders
    <3>6. CASE HandlePing(p) \/ HandlePutValue(p)
      BY <3>6 DEF HandlePing, HandlePutValue, Fits
    <3> QED
      BY <2>6, <3>3, <3>4, <3>5, <3>6
  <2>7. CASE UNCHANGED serverVars
    BY <2>1, <2>7 DEF serverVars, streamVars
  <2> QED
    BY <2>2, <2>3, <2>4, <2>5, <2>6, <2>7 DEF ServerNext, Serve, Handle
<1> QED
  BY <1>1, <1>2, ServerTypeCorrect, PTL DEF ServerSpec
-----------------------------------------------------------------------------
(* The search for providers.                                                *)

\* What a step of the lookup does to the queries.  It neither starts nor ends the loop over
\* the providers of an answer, and when it ends the lookup no query is under way.
LEMMA LookupMoves ==
    ASSUME TypeOK, NEW stopped \in BOOLEAN, LookupMove(stopped)
    PROVE  /\ lookup \in {"run", "join", "followup", "drain"}
           /\ lookup' \in {"run", "join", "followup", "drain", "ended"}
           /\ work' \in [Peers -> {"heard", "asking", "send", "report", "failed", "done", "unreachable"}]
           /\ result' \subseteq Peers
           /\ \A p \in Peers : work'[p] \in {"send", "report"} => work'[p] = work[p]
           /\ \A p \in Peers : work'[p] = "done" => work[p] \in {"report", "done"}
           /\ lookup' = "ended" => \A p \in Peers : work'[p] \notin {"asking", "send"}
<1> USE DEF TypeOK
<1>1. ASSUME NEW p \in Peers, HandleUpdate(p, stopped)
      PROVE  /\ lookup = "run" /\ lookup' \in {"run", "join"} /\ result' = result
             /\ work' \in [Peers -> {"heard", "asking", "send", "report", "failed", "done", "unreachable"}]
             /\ \A q \in Peers : work'[q] \in {"send", "report"} => work'[q] = work[q]
             /\ \A q \in Peers : work'[q] = "done" => work[q] \in {"report", "done"}
  <2> DEFINE w == [work EXCEPT ![p] = IF work[p] = "report" THEN "done" ELSE "unreachable"]
  <2>1. lookup = "run" /\ lookup' \in {"run", "join"} /\ result' = result
    BY <1>1 DEF HandleUpdate
  <2>2. \E S : work' = w \/ work' = [q \in Peers |-> IF q \in S THEN "asking" ELSE w[q]]
    BY <1>1 DEF HandleUpdate
  <2>3. work[p] \in {"report", "failed"}
    BY <1>1 DEF HandleUpdate
  <2> QED
    BY <2>1, <2>2, <2>3
<1>2. CASE LookupCancelled \/ CancelFollowup
  BY <1>2 DEF LookupCancelled, CancelFollowup
<1>3. CASE Join(stopped)
  <2>1. lookup = "join" /\ \A p \in Peers : work[p] \notin {"asking", "send"}
    BY <1>3 DEF Join, At
  <2>2. PICK R \in Results :
          /\ result' = R
          /\ \/ lookup' = "ended" /\ work' = work
             \/ /\ lookup' = "followup"
                /\ work' = [p \in Peers |-> IF p \in R \cap (At("heard") \cup InFlight) THEN "asking"
                                            ELSE IF p \in InFlight THEN "heard" ELSE work[p]]
    BY <1>3 DEF Join, Followup
  <2>3. result' \subseteq Peers
    BY <2>2 DEF Results
  <2>4. CASE lookup' = "ended" /\ work' = work
    BY <2>1, <2>3, <2>4
  <2>5. CASE lookup' # "ended"
    BY <2>1, <2>2, <2>3, <2>5
  <2> QED
    BY <2>2, <2>4, <2>5
<1>4. ASSUME NEW p \in Peers, ReceiveFollowup(p, stopped)
      PROVE  /\ lookup = "followup" /\ lookup' \in {"followup", "drain", "ended"} /\ result' = result
             /\ work' \in [Peers -> {"heard", "asking", "send", "report", "failed", "done", "unreachable"}]
             /\ \A q \in Peers : work'[q] \in {"send", "report"} => work'[q] = work[q]
             /\ \A q \in Peers : work'[q] = "done" => work[q] \in {"report", "done"}
             /\ lookup' = "ended" => \A q \in Peers : work'[q] \notin {"asking", "send"}
  <2>1. lookup' = "ended" => InFlight = {p}
    BY <1>4 DEF ReceiveFollowup
  <2>2. InFlight = {p} => \A q \in Peers \ {p} : work[q] \notin {"asking", "send"}
    BY DEF InFlight, At
  <2>3. \/ work' = [work EXCEPT ![p] = "done"] /\ work[p] = "report"
        \/ work' = [work EXCEPT ![p] = "unreachable"]
    BY <1>4 DEF ReceiveFollowup, Move
  <2>4. lookup = "followup" /\ lookup' \in {"followup", "drain", "ended"} /\ result' = result
    BY <1>4 DEF ReceiveFollowup
  <2> QED
    BY <2>1, <2>2, <2>3, <2>4
<1>5. CASE Drain
  BY <1>5 DEF Drain, At
<1> QED
  BY <1>1, <1>2, <1>3, <1>4, <1>5 DEF LookupMove

\* The same for the lookup's first step.
LEMMA StartTypes ==
    ASSUME NEW w \in Starts
    PROVE  w \in [Peers -> {"heard", "asking"}]
  BY DEF Starts

\* Every step of the search keeps the types.
LEMMA SearchTypeStep ==
    ASSUME TypeOK, [Next]_vars
    PROVE  TypeOK'
<1> USE ProviderSearchAssumption, ProviderCallAssumption DEF TypeOK, inputs, loopVars, outVars, lookupVars, Askers
<1>1. ASSUME NEW w \in Askers, NEW v \in Provs, TryAdd(w, v) PROVE TypeOK'
  BY <1>1 DEF TryAdd, Advance
<1>2. ASSUME NEW w \in Askers, SendProvider(w) PROVE TypeOK'
  <2>1. sent' \in Seq(Provs) /\ Len(sent') = Len(sent) + 1 /\ Len(sent) \in Nat
    BY <1>2 DEF SendProvider
  <2> QED
    BY <1>2, <2>1 DEF SendProvider, Advance
<1>3. ASSUME NEW p \in Peers, SendCancelled(p) \/ Answer(p) \/ AnswerFails(p) \/ Report(p)
      PROVE  TypeOK'
  BY <1>3 DEF SendCancelled, Answer, AnswerFails, Report, Move
<1>4. CASE LocalCancelled \/ Close
  BY <1>4 DEF LocalCancelled, Close
<1>5. CASE EndLocal
  BY <1>5, StartTypes DEF EndLocal
<1>6. CASE LookupStep
  <2>1. Enough \in BOOLEAN
    BY DEF Enough
  <2> QED
    BY <1>6, <2>1, LookupMoves DEF LookupStep
<1>7. CASE Read
  <2>1. Len(sent) \in Nat
    OBVIOUS
  <2> QED
    BY <1>7, <2>1 DEF Read
<1>8. CASE Cancel
  BY <1>8 DEF Cancel
<1>9. CASE Ended \/ UNCHANGED vars
  BY <1>9 DEF Ended, vars
<1> QED
  BY <1>1, <1>2, <1>3, <1>4, <1>5, <1>6, <1>7, <1>8, <1>9 DEF Next, MainStep, QueryStep, LoopStep

\* A search for providers keeps the types of its variables.
THEOREM SearchTypeCorrect == Spec => []TypeOK
<1>1. Init => TypeOK
  <2> SUFFICES ASSUME Init PROVE TypeOK
    OBVIOUS
  <2>1. rest \in [Askers -> SUBSET Provs] /\ pend \in [Askers -> Provs \cup {NoProv}]
    BY DEF Init, Askers
  <2>2. sent \in Seq(Provs) /\ taken \in 0..Len(sent)
    BY DEF Init
  <2> QED
    BY <2>1, <2>2 DEF Init, TypeOK, NothingAsked
<1>2. TypeOK /\ [Next]_vars => TypeOK'
  BY SearchTypeStep
<1> QED
  BY <1>1, <1>2, PTL DEF Spec

\* Where the lookup is when the search is not at it, and that it ends without a query.
LookupInv ==
    /\ main = "local" => lookup = "idle"
    /\ main = "ended" => lookup \in {"idle", "ended"}
    /\ lookup \in {"idle", "ended"} => \A p \in Peers : work[p] \notin {"asking", "send"}

\* What is sent or waits to be sent was found by one query, and no more is found than count.
SendInv ==
    /\ IsFiniteSet(ps) /\ (count > 0 => Cardinality(ps) <= count)
    /\ Sent \subseteq ps /\ Cardinality(Sent) = Len(sent)
    /\ \A w \in Askers : pend[w] # NoProv => pend[w] \in ps \ Sent
    /\ \A w, x \in Askers : pend[w] # NoProv /\ pend[x] = pend[w] => x = w

\* As long as more providers are wanted, a loop has found all but the rest of its providers.
FoundInv ==
    ~Enough =>
        \A p \in Peers :
            /\ work[p] = "send" => provides[p] \subseteq ps \cup rest[p]
            /\ work[p] \in {"report", "done"} => provides[p] \subseteq ps

\* The lookup takes its steps only while the search is at it.
LEMMA LookupInvStep ==
    ASSUME TypeOK, LookupInv, [Next]_vars
    PROVE  LookupInv'
<1> USE DEF TypeOK, LookupInv, lookupVars
<1>1. ASSUME NEW w \in Askers, LoopStep(w) PROVE LookupInv'
  BY <1>1 DEF LoopStep, TryAdd, SendProvider
<1>2. ASSUME NEW p \in Peers, SendCancelled(p) \/ Answer(p) \/ AnswerFails(p) \/ Report(p)
      PROVE  LookupInv'
  BY <1>2 DEF SendCancelled, Answer, AnswerFails, Report, Move
<1>3. CASE LocalCancelled \/ Close
  BY <1>3 DEF LocalCancelled, Close
<1>4. CASE EndLocal
  BY <1>4 DEF EndLocal
<1>5. CASE LookupStep
  <2>1. Enough \in BOOLEAN
    BY DEF Enough
  <2> QED
    BY <1>5, <2>1, LookupMoves DEF LookupStep
<1>6. CASE Read \/ Cancel \/ Ended \/ UNCHANGED vars
  BY <1>6 DEF Read, Cancel, Ended, vars
<1> QED
  BY <1>1, <1>2, <1>3, <1>4, <1>5, <1>6 DEF Next, MainStep, QueryStep, Askers

\* Appending adds an element.
LEMMA AppendElements ==
    ASSUME NEW S, NEW s \in Seq(S), NEW v \in S
    PROVE  {Append(s, v)[i] : i \in DOMAIN Append(s, v)} = {s[i] : i \in DOMAIN s} \cup {v}
<1>1. Len(s) \in Nat /\ DOMAIN s = 1..Len(s) /\ DOMAIN Append(s, v) = 1..(Len(s) + 1)
  OBVIOUS
<1>2. \A i \in 1..Len(s) : Append(s, v)[i] = s[i]
  OBVIOUS
<1>3. Append(s, v)[Len(s) + 1] = v
  OBVIOUS
<1> QED
  BY <1>1, <1>2, <1>3

\* What SendProvider does: the provider is new to peerOut, which is not full.
LEMMA SendFacts ==
    ASSUME TypeOK, SendInv, NEW w \in Askers, SendProvider(w)
    PROVE  /\ pend[w] \in Provs /\ pend[w] \notin Sent /\ Sent' = Sent \cup {pend[w]}
           /\ count = 0 \/ Len(sent) < count
           /\ Cardinality(Sent') = Len(sent')
<1>1. pend[w] \in Provs /\ pend[w] \in ps \ Sent /\ sent' = Append(sent, pend[w])
  BY DEF TypeOK, SendInv, SendProvider
<1>2. Sent' = Sent \cup {pend[w]}
  BY <1>1, AppendElements DEF Sent, TypeOK
<1>3. IsFiniteSet(Sent) /\ Sent \cup {pend[w]} \subseteq ps
  BY <1>1, FS_Subset DEF SendInv
<1>4. Cardinality(Sent \cup {pend[w]}) = Cardinality(Sent) + 1
  BY <1>1, <1>3, FS_AddElement
<1>5. Cardinality(Sent) + 1 <= Cardinality(ps)
  BY <1>3, <1>4, FS_Subset DEF SendInv
<1>6. Cardinality(ps) \in Nat /\ Len(sent) \in Nat /\ count \in Nat
  BY FS_CardinalityType, ProviderSearchAssumption, ProviderCallAssumption DEF SendInv, TypeOK
<1>7. Len(sent') = Len(sent) + 1
  BY <1>1 DEF TypeOK
<1> QED
  BY <1>1, <1>2, <1>4, <1>5, <1>6, <1>7 DEF SendInv

\* No step of the search sends what was not found, or more than count.
LEMMA SendInvStep ==
    ASSUME TypeOK, SendInv, [Next]_vars
    PROVE  SendInv'
<1> USE DEF TypeOK, inputs, loopVars, outVars
<1>1. ASSUME NEW w \in Askers, NEW v \in Provs, TryAdd(w, v) PROVE SendInv'
  <2>1. CASE v \in ps \/ Enough
    BY <1>1, <2>1 DEF TryAdd, SendInv, Sent
  <2>2. CASE v \notin ps /\ ~Enough
    <3>1. ps' = ps \cup {v} /\ pend' = [pend EXCEPT ![w] = v] /\ UNCHANGED <<count, sent>>
      BY <1>1, <2>2 DEF TryAdd
    <3>2. IsFiniteSet(ps') /\ Cardinality(ps') = Cardinality(ps) + 1 /\ Cardinality(ps) \in Nat
      BY <2>2, <3>1, FS_AddElement, FS_CardinalityType DEF SendInv
    <3>3. count > 0 => Cardinality(ps') <= count
      BY <2>2, <3>1, <3>2, ProviderSearchAssumption, ProviderCallAssumption DEF Enough, SendInv
    <3>4. \A x \in Askers : pend'[x] # NoProv => pend'[x] \in ps' \ Sent'
      BY <2>2, <3>1 DEF SendInv, Sent
    <3>5. \A x, y \in Askers : pend'[x] # NoProv /\ pend'[y] = pend'[x] => y = x
      BY <2>2, <3>1, ProviderSearchAssumption, ProviderCallAssumption DEF SendInv
    <3> QED
      BY <3>1, <3>2, <3>3, <3>4, <3>5 DEF SendInv, Sent
  <2> QED
    BY <2>1, <2>2
<1>2. ASSUME NEW w \in Askers, SendProvider(w) PROVE SendInv'
  <2>1. pend' = [pend EXCEPT ![w] = NoProv] /\ UNCHANGED <<count, ps>>
    BY <1>2 DEF SendProvider
  <2>2. pend[w] # NoProv
    BY <1>2 DEF SendProvider
  <2> QED
    BY <1>2, <2>1, <2>2, SendFacts DEF SendInv
<1>3. ASSUME NEW p \in Peers, SendCancelled(p) \/ Answer(p) \/ AnswerFails(p) \/ Report(p)
      PROVE  SendInv'
  <2>1. UNCHANGED <<count, ps, sent>> /\ \A w \in Askers : pend'[w] \in {pend[w], NoProv}
    BY <1>3 DEF SendCancelled, Answer, AnswerFails, Report
  <2> QED
    BY <2>1 DEF SendInv, Sent
<1>4. CASE LocalCancelled \/ Close \/ EndLocal \/ LookupStep \/ Read \/ Cancel \/ Ended \/ UNCHANGED vars
  <2>1. UNCHANGED <<count, ps, pend, sent>>
    BY <1>4 DEF LocalCancelled, Close, EndLocal, LookupStep, Read, Cancel, Ended, vars
  <2> QED
    BY <2>1 DEF SendInv, Sent
<1> QED
  BY <1>1, <1>2, <1>3, <1>4 DEF Next, MainStep, QueryStep, LoopStep, Askers

\* Once there are enough providers there are.
LEMMA EnoughStays ==
    ASSUME TypeOK, SendInv, [Next]_vars, Enough
    PROVE  Enough'
<1>1. ps \subseteq ps' /\ count' = count
  BY DEF Next, MainStep, LookupStep, QueryStep, LoopStep, TryAdd, SendProvider, SendCancelled,
     LocalCancelled, Answer, AnswerFails, Report, EndLocal, Close, Read, Cancel, Ended, vars,
     inputs, loopVars
<1>2. IsFiniteSet(ps') /\ IsFiniteSet(ps)
  BY SendInvStep DEF SendInv
<1>3. Cardinality(ps) <= Cardinality(ps') /\ Cardinality(ps) \in Nat /\ Cardinality(ps') \in Nat
  BY <1>1, <1>2, FS_Subset, FS_CardinalityType
<1> QED
  BY <1>1, <1>3, ProviderSearchAssumption, ProviderCallAssumption DEF Enough, TypeOK

\* A loop over the providers of an answer leaves none of them out.
LEMMA FoundInvStep ==
    ASSUME TypeOK, SendInv, FoundInv, [Next]_vars
    PROVE  FoundInv'
<1> SUFFICES ASSUME ~Enough', NEW p \in Peers
             PROVE  /\ work'[p] = "send" => provides'[p] \subseteq ps' \cup rest'[p]
                    /\ work'[p] \in {"report", "done"} => provides'[p] \subseteq ps'
  BY DEF FoundInv
<1>1. /\ ~Enough
      /\ work[p] = "send" => provides[p] \subseteq ps \cup rest[p]
      /\ work[p] \in {"report", "done"} => provides[p] \subseteq ps
  BY EnoughStays DEF FoundInv
<1> USE DEF TypeOK, inputs, loopVars, outVars, lookupVars, Askers
<1>2. ASSUME NEW w \in Askers, NEW v \in Provs, TryAdd(w, v)
      PROVE  UNCHANGED <<provides, work>> /\ ps \subseteq ps' /\ rest[p] \subseteq rest'[p] \cup ps'
  BY <1>1, <1>2 DEF TryAdd, Advance
<1>3. ASSUME NEW w \in Askers, SendProvider(w)
      PROVE  UNCHANGED <<provides, work, ps>> /\ rest[p] \subseteq rest'[p] \cup ps'
  <2>1. pend[w] \in ps
    BY <1>3 DEF SendInv, SendProvider
  <2> QED
    BY <1>1, <1>3, <2>1 DEF SendProvider, Advance
<1>4. ASSUME NEW q \in Peers, SendCancelled(q) \/ Answer(q) \/ AnswerFails(q) \/ Report(q)
      PROVE  /\ work'[p] = "send" => provides'[p] \subseteq ps' \cup rest'[p]
             /\ work'[p] \in {"report", "done"} => provides'[p] \subseteq ps'
  BY <1>1, <1>4 DEF SendCancelled, Answer, AnswerFails, Report, Move
<1>5. CASE EndLocal
  BY <1>1, <1>5, StartTypes DEF EndLocal
<1>6. CASE LookupStep
  <2>1. Enough \in BOOLEAN
    BY DEF Enough
  <2> QED
    BY <1>1, <1>6, <2>1, LookupMoves DEF LookupStep
<1>7. CASE LocalCancelled \/ Close \/ Read \/ Cancel \/ Ended \/ UNCHANGED vars
  BY <1>1, <1>7 DEF LocalCancelled, Close, Read, Cancel, Ended, vars
<1> QED
  BY <1>1, <1>2, <1>3, <1>4, <1>5, <1>6, <1>7 DEF Next, MainStep, QueryStep, LoopStep

SearchInv == TypeOK /\ LookupInv /\ SendInv /\ FoundInv

\* The inductive invariant of the search.
LEMMA SearchInvariant == Spec => []SearchInv
<1>1. Init => LookupInv /\ SendInv /\ FoundInv
  <2> SUFFICES ASSUME Init PROVE LookupInv /\ SendInv /\ FoundInv
    OBVIOUS
  <2>1. Sent = {} /\ Len(sent) = 0
    BY DEF Init, Sent
  <2>2. IsFiniteSet({}) /\ Cardinality({}) = 0
    BY FS_EmptySet
  <2>3. count \in Nat
    BY ProviderSearchAssumption, ProviderCallAssumption DEF Init
  <2>4. SendInv
    BY <2>1, <2>2, <2>3 DEF Init, SendInv
  <2> QED
    BY <2>4 DEF Init, LookupInv, FoundInv, NothingAsked
<1>2. TypeOK /\ LookupInv /\ SendInv /\ FoundInv /\ [Next]_vars => (LookupInv /\ SendInv /\ FoundInv)'
  BY LookupInvStep, SendInvStep, FoundInvStep
<1> QED
  BY <1>1, <1>2, SearchTypeCorrect, PTL DEF Spec, SearchInv

\* A search that ends uncancelled without enough providers has found all those its result knows.
THEOREM ResultProvidersFound == Spec => []AllOfResultFound
<1>1. SearchInv => AllOfResultFound
  BY DEF SearchInv, FoundInv, AllOfResultFound, TypeOK
<1> QED
  BY <1>1, SearchInvariant, PTL

\* FindProvidersAsync keeps its promise: distinct providers, at most count, then the end.
THEOREM SearchKeepsPromise == Spec => KeepsPromise
<1>1. Init => Stream!Init
  BY DEF Init, Stream!Init, closed
<1>2. SearchInv /\ [Next]_vars => [Stream!Next]_(Stream!streamVars)
  <2> SUFFICES ASSUME SearchInv, [Next]_vars PROVE [Stream!Next]_(Stream!streamVars)
    OBVIOUS
  <2> USE DEF SearchInv, inputs, loopVars, outVars, Stream!streamVars, closed
  <2>1. ASSUME NEW w \in Askers, SendProvider(w) PROVE Stream!Next
    <3>1. main # "ended"
      BY <2>1 DEF SendProvider, InLoop, LookupInv, Askers
    <3>2. Stream!Send(pend[w])
      BY <2>1, <3>1, SendFacts DEF SendProvider, Stream!Send, Stream!Sent, Sent
    <3> QED
      BY <2>1, <3>2, SendFacts DEF Stream!Next
  <2>2. CASE LocalCancelled \/ Close \/ EndLocal
    BY <2>2 DEF LocalCancelled, Close, EndLocal, Stream!Next, Stream!Close
  <2>3. ASSUME NEW w \in Askers, NEW v \in Provs, TryAdd(w, v) PROVE UNCHANGED Stream!streamVars
    BY <2>3 DEF TryAdd
  <2>4. ASSUME NEW p \in Peers, SendCancelled(p) \/ Answer(p) \/ AnswerFails(p) \/ Report(p)
        PROVE  UNCHANGED Stream!streamVars
    BY <2>4 DEF SendCancelled, Answer, AnswerFails, Report
  <2>5. CASE LookupStep \/ Read \/ Cancel \/ Ended \/ UNCHANGED vars
    BY <2>5 DEF LookupStep, Read, Cancel, Ended, vars
  <2> QED
    BY <2>1, <2>2, <2>3, <2>4, <2>5 DEF Next, MainStep, QueryStep, LoopStep, Askers
<1> QED
  BY <1>1, <1>2, SearchInvariant, PTL DEF Spec, KeepsPromise, Stream!Spec
-----------------------------------------------------------------------------
(* The calls on the dual DHT.                                               *)

\* The types of the merge of two channels.
MergeTypes ==
    /\ ctxDone \in BOOLEAN /\ count \in Counts
    /\ wanSent \in Seq(Provs) /\ wanClosed \in BOOLEAN
    /\ lanSent \in Seq(Provs) /\ lanClosed \in BOOLEAN
    /\ read \in [Parts -> Nat] /\ open \subseteq Parts
    /\ pi \in Provs \cup {NoProv} /\ out \in Seq(Provs)
    /\ merge \in {"select", "send", "ended"} /\ (merge = "send" <=> pi # NoProv)

\* The steps of a call on the dual DHT are those of the merge, or do not touch it but for the
\* end of the caller's context.
LEMMA DualSteps ==
    ASSUME [DualNext]_dualVars
    PROVE  \/ MergeNext
           \/ /\ UNCHANGED provVars
              /\ UNCHANGED ctxDone \/ (ctxDone' = TRUE /\ merge # "ended")
<1>1. CASE ProvidersNext
  BY <1>1 DEF ProvidersNext
<1>2. CASE CallStep
  BY <1>2 DEF CallStep, CancelLan, FindPeer, GetValue, GetPublicKey,
     Forward, BothInTurn, Return
<1>3. ASSUME NEW d \in Parts, PartNext(d) PROVE UNCHANGED <<provVars, ctxDone>>
  BY <1>3 DEF PartNext, CallPart
<1>4. CASE TimeOut
  BY <1>4 DEF TimeOut
<1>5. ASSUME NEW e, CancelCall(e) PROVE UNCHANGED provVars /\ ctxDone' = TRUE /\ merge # "ended"
  BY <1>5 DEF CancelCall
<1>6. CASE UNCHANGED dualVars
  BY <1>6 DEF dualVars
<1> QED
  BY <1>1, <1>2, <1>3, <1>4, <1>5, <1>6 DEF DualNext

\* The types of the merge are kept by every step.
LEMMA MergeTypeStep ==
    ASSUME MergeTypes, MergeNext
    PROVE  MergeTypes'
<1> USE ProviderCallAssumption
    DEF MergeTypes, wanVars, lanVars, mergeVars, Parts, SentBy, ClosedBy
<1>1. CASE WanSends
  BY <1>1 DEF WanSends, WAN!Send
<1>2. CASE LanSends
  BY <1>2 DEF LanSends, LAN!Send
<1>3. CASE WanCloses \/ LanCloses
  BY <1>3 DEF WanCloses, LanCloses, WAN!Close, LAN!Close
<1>4. ASSUME NEW d \in Parts, Receive(d) PROVE MergeTypes'
  <2>1. read' \in [Parts -> Nat]
    BY <1>4 DEF Receive
  <2>2. SentBy(d) \in Seq(Provs) /\ read'[d] \in 1..Len(SentBy(d))
    BY <1>4 DEF Receive
  <2>3. SentBy(d)[read'[d]] \in Provs
    BY <2>2
  <2> QED
    BY <1>4, <2>1, <2>3 DEF Receive
<1>5. ASSUME NEW d \in Parts, ReceiveClosed(d) PROVE MergeTypes'
  BY <1>5 DEF ReceiveClosed
<1>6. CASE Deliver
  BY <1>6 DEF Deliver
<1>7. CASE DeliverCancelled \/ MergeEnds
  BY <1>7 DEF DeliverCancelled, MergeEnds
<1> QED
  BY <1>1, <1>2, <1>3, <1>4, <1>5, <1>6, <1>7 DEF MergeNext, MergeStep

\* What was received has been passed on or waits for the caller, and a channel is given up
\* when it is closed and empty.
MergeInv ==
    /\ \A d \in Parts : read[d] <= Len(SentBy(d))
    /\ \A d \in Parts \ open : ClosedBy(d) /\ read[d] = Len(SentBy(d))
    /\ count > 0 => Len(out) <= count
    /\ merge = "send" => pi \notin found /\ (count = 0 \/ Len(out) < count)
    /\ found \cup ({pi} \ {NoProv}) \subseteq Elems(wanSent) \cup Elems(lanSent)
    /\ \/ merge = "ended" /\ ctxDone
       \/ \A d \in Parts : \A i \in 1..read[d] : SentBy(d)[i] \in found \cup {pi}
    /\ merge = "ended" /\ ~ctxDone => ~GoesOn

\* The elements of a sequence with one more at its end.
LEMMA ElemsAppend ==
    ASSUME NEW S, NEW s \in Seq(S), NEW v \in S
    PROVE  Elems(Append(s, v)) = Elems(s) \cup {v}
  BY AppendElements DEF Elems

\* Every step of the merge accounts for what the parts have sent.
LEMMA MergeInvStep ==
    ASSUME MergeTypes, MergeInv, MergeNext
    PROVE  MergeInv'
<1> USE DEF MergeTypes, wanVars, lanVars, mergeVars
<1>1. CASE WanSends
  <2>1. PICK v \in Provs : wanSent' = Append(wanSent, v) /\ ~wanClosed
    BY <1>1 DEF WanSends, WAN!Send
  <2>2. UNCHANGED <<ctxDone, count, wanClosed, lanSent, lanClosed, read, open, pi, out, merge>>
    BY <1>1 DEF WanSends, WAN!Send
  <2>3. /\ Len(wanSent') = Len(wanSent) + 1 /\ Len(wanSent) \in Nat
        /\ \A i \in 1..Len(wanSent) : wanSent'[i] = wanSent[i]
    BY <2>1
  <2>4. Elems(wanSent') = Elems(wanSent) \cup {v}
    BY <2>1, ElemsAppend
  <2>5. \A d \in Parts \ open : d = "lan"
    BY <2>1 DEF MergeInv, ClosedBy, Parts
  <2> QED
    BY <2>1, <2>2, <2>3, <2>4, <2>5 DEF MergeInv, SentBy, ClosedBy, found, GoesOn, Parts
<1>2. CASE LanSends
  <2>1. PICK v \in Provs : lanSent' = Append(lanSent, v) /\ ~lanClosed
    BY <1>2 DEF LanSends, LAN!Send
  <2>2. UNCHANGED <<ctxDone, count, lanClosed, wanSent, wanClosed, read, open, pi, out, merge>>
    BY <1>2 DEF LanSends, LAN!Send
  <2>3. /\ Len(lanSent') = Len(lanSent) + 1 /\ Len(lanSent) \in Nat
        /\ \A i \in 1..Len(lanSent) : lanSent'[i] = lanSent[i]
    BY <2>1
  <2>4. Elems(lanSent') = Elems(lanSent) \cup {v}
    BY <2>1, ElemsAppend
  <2>5. \A d \in Parts \ open : d = "wan"
    BY <2>1 DEF MergeInv, ClosedBy, Parts
  <2> QED
    BY <2>1, <2>2, <2>3, <2>4, <2>5 DEF MergeInv, SentBy, ClosedBy, found, GoesOn, Parts
<1>3. CASE WanCloses \/ LanCloses
  BY <1>3 DEF WanCloses, LanCloses, WAN!Close, LAN!Close, MergeInv,
     SentBy, ClosedBy, found, GoesOn
<1>4. ASSUME NEW d \in Parts, Receive(d) PROVE MergeInv'
  <2> DEFINE v == SentBy(d)[read[d] + 1]
  <2>1. /\ read[d] < Len(SentBy(d)) /\ read' = [read EXCEPT ![d] = read[d] + 1]
        /\ read'[d] = read[d] + 1 /\ d \in open /\ merge = "select" /\ GoesOn
        /\ UNCHANGED <<ctxDone, count, wanSent, wanClosed, lanSent, lanClosed, open, out>>
    BY <1>4 DEF Receive
  <2>2. IF v \in found THEN UNCHANGED <<pi, merge>> ELSE pi' = v /\ merge' = "send"
    BY <1>4, <2>1 DEF Receive
  <2>3. pi = NoProv
    BY <2>1
  <2>4. /\ SentBy(d) \in Seq(Provs) /\ read[d] + 1 \in 1..Len(SentBy(d))
        /\ read[d] \in Nat
    BY <2>1 DEF SentBy
  <2>5. v \in Provs /\ v \in Elems(wanSent) \cup Elems(lanSent)
    BY <2>4 DEF Elems, SentBy
  <2>6. v \in found \cup {pi'} /\ pi' \in {NoProv, v}
    BY <2>2, <2>3
  <2> HIDE DEF v
  <2>7. \A x \in Parts : SentBy(x)' = SentBy(x) /\ ClosedBy(x)' = ClosedBy(x)
    BY <2>1 DEF SentBy, ClosedBy
  <2>8. found' = found /\ GoesOn' = GoesOn
    BY <2>1 DEF found, GoesOn
  <2>9. (\A x \in Parts : \A i \in 1..read[x] : SentBy(x)[i] \in found \cup {pi})'
    <3> SUFFICES ASSUME NEW x \in Parts, NEW i \in 1..read'[x]
                 PROVE  SentBy(x)[i] \in found \cup {pi'}
      BY <2>7, <2>8
    <3>1. CASE x = d /\ i = read[d] + 1
      BY <2>6, <3>1 DEF v
    <3>2. CASE ~(x = d /\ i = read[d] + 1)
      <4>1. i \in 1..read[x]
        BY <2>1, <2>4, <3>2
      <4>2. SentBy(x)[i] \in found \cup {NoProv}
        BY <4>1, <2>1, <2>3 DEF MergeInv
      <4>3. SentBy(x) \in Seq(Provs) /\ i \in 1..Len(SentBy(x))
        BY <4>1 DEF MergeInv, SentBy
      <4>4. SentBy(x)[i] # NoProv
        BY <4>3, ProviderCallAssumption
      <4> QED
        BY <4>2, <4>4
    <3> QED
      BY <3>1, <3>2
  <2>10. (\A x \in Parts : read[x] <= Len(SentBy(x)))'
    BY <2>1, <2>4, <2>7 DEF MergeInv
  <2>11. (\A x \in Parts \ open : ClosedBy(x) /\ read[x] = Len(SentBy(x)))'
    BY <2>1, <2>7 DEF MergeInv
  <2>12. (merge = "send" => pi \notin found /\ (count = 0 \/ Len(out) < count))'
    BY <2>1, <2>2, <2>8 DEF GoesOn
  <2>13. (found \cup ({pi} \ {NoProv}) \subseteq Elems(wanSent) \cup Elems(lanSent))'
    BY <2>1, <2>5, <2>6, <2>8 DEF MergeInv
  <2> QED
    BY <2>1, <2>2, <2>8, <2>9, <2>10, <2>11, <2>12, <2>13 DEF MergeInv
<1>5. ASSUME NEW d \in Parts, ReceiveClosed(d) PROVE MergeInv'
  BY <1>5 DEF ReceiveClosed, MergeInv, SentBy, ClosedBy, found
<1>6. CASE Deliver
  <2>1. pi \in Provs
    BY <1>6 DEF Deliver
  <2>2. /\ out' = Append(out, pi) /\ merge = "send" /\ merge' = "select" /\ pi' = NoProv
        /\ UNCHANGED <<ctxDone, count, wanSent, wanClosed, lanSent, lanClosed, read, open>>
    BY <1>6 DEF Deliver
  <2>3. found' = found \cup {pi}
    BY <2>1, <2>2, ElemsAppend DEF found
  <2>4. Len(out') = Len(out) + 1 /\ Len(out) \in Nat /\ count \in Nat
    BY <2>1, <2>2, ProviderCallAssumption
  <2>5. \A x \in Parts : SentBy(x)' = SentBy(x) /\ ClosedBy(x)' = ClosedBy(x)
    BY <2>2 DEF SentBy, ClosedBy
  <2> QED
    BY <2>1, <2>2, <2>3, <2>4, <2>5 DEF MergeInv
<1>7. CASE DeliverCancelled
  BY <1>7 DEF DeliverCancelled, MergeInv, SentBy, ClosedBy, found
<1>8. CASE MergeEnds
  BY <1>8 DEF MergeEnds, MergeInv, SentBy, ClosedBy, found, GoesOn
<1> QED
  BY <1>1, <1>2, <1>3, <1>4, <1>5, <1>6, <1>7, <1>8 DEF MergeNext, MergeStep

\* The inductive invariant of the merge.
LEMMA MergeInvariant == DualSpec => [](MergeTypes /\ MergeInv)
<1>1. DualInit => MergeTypes /\ MergeInv
  <2> SUFFICES ASSUME DualInit PROVE MergeTypes /\ MergeInv
    OBVIOUS
  <2>1. /\ ctxDone = FALSE /\ count \in Counts
        /\ wanSent = << >> /\ wanClosed = FALSE /\ lanSent = << >> /\ lanClosed = FALSE
        /\ read = [d \in Parts |-> 0] /\ open = Parts
        /\ pi = NoProv /\ out = << >> /\ merge = "select"
    BY DEF DualInit, MergeInit, WAN!Init, LAN!Init
  <2>2. MergeTypes
    <3>1. wanSent \in Seq(Provs) /\ lanSent \in Seq(Provs) /\ out \in Seq(Provs)
      BY <2>1
    <3>2. read \in [Parts -> Nat]
      BY <2>1
    <3> QED
      BY <2>1, <3>1, <3>2 DEF MergeTypes
  <2>3. found = {} /\ Len(out) = 0 /\ count \in Nat
    BY <2>1, ProviderCallAssumption DEF found, Elems
  <2>4. \A d \in Parts : SentBy(d) = << >>
    BY <2>1 DEF SentBy
  <2> QED
    BY <2>1, <2>2, <2>3, <2>4 DEF MergeInv
<1>2. MergeTypes /\ MergeInv /\ [DualNext]_dualVars => (MergeTypes /\ MergeInv)'
  <2> SUFFICES ASSUME MergeTypes, MergeInv, [DualNext]_dualVars PROVE (MergeTypes /\ MergeInv)'
    OBVIOUS
  <2>1. CASE MergeNext
    BY <2>1, MergeTypeStep, MergeInvStep
  <2>2. CASE UNCHANGED provVars /\ (UNCHANGED ctxDone \/ (ctxDone' = TRUE /\ merge # "ended"))
    BY <2>2 DEF MergeTypes, MergeInv, provVars, wanVars, lanVars, mergeVars,
       SentBy, ClosedBy, found, GoesOn
  <2> QED
    BY <2>1, <2>2, DualSteps
<1> QED
  BY <1>1, <1>2, PTL DEF DualSpec

\* The merged search has passed on count providers or all that the two searches found.
THEOREM MergeHoldsNothingBack == DualSpec => []NothingHeldBack
<1>1. MergeTypes /\ MergeInv => NothingHeldBack
  <2> SUFFICES ASSUME MergeTypes, MergeInv, merge = "ended", ~ctxDone, ~(count > 0 /\ Len(out) = count)
               PROVE  wanClosed /\ lanClosed /\ found = Elems(wanSent) \cup Elems(lanSent)
    BY DEF NothingHeldBack
  <2>1. Len(out) \in Nat /\ count \in Nat
    BY ProviderCallAssumption DEF MergeTypes
  <2>2. open = {}
    BY <2>1 DEF MergeInv, GoesOn
  <2>3. \A d \in Parts : ClosedBy(d) /\ read[d] = Len(SentBy(d))
    BY <2>2 DEF MergeInv
  <2>4. /\ wanClosed /\ read["wan"] = Len(wanSent)
        /\ lanClosed /\ read["lan"] = Len(lanSent)
    BY <2>3 DEF ClosedBy, SentBy, Parts
  <2>5. pi = NoProv
    BY DEF MergeTypes
  <2>6. ASSUME NEW d \in Parts, NEW i \in 1..Len(SentBy(d))
        PROVE  SentBy(d)[i] \in found
    <3>1. SentBy(d)[i] \in found \cup {NoProv}
      BY <2>3, <2>5, <2>6 DEF MergeInv
    <3>2. SentBy(d) \in Seq(Provs)
      BY DEF MergeTypes, SentBy
    <3> QED
      BY <2>6, <3>1, <3>2, ProviderCallAssumption
  <2>7. /\ \A i \in 1..Len(wanSent) : wanSent[i] \in found
        /\ \A i \in 1..Len(lanSent) : lanSent[i] \in found
    BY <2>6 DEF SentBy, Parts
  <2>8. DOMAIN wanSent = 1..Len(wanSent) /\ DOMAIN lanSent = 1..Len(lanSent)
    BY DEF MergeTypes
  <2>9. Elems(wanSent) \cup Elems(lanSent) \subseteq found
    BY <2>7, <2>8 DEF Elems
  <2> QED
    BY <2>4, <2>9 DEF MergeInv
<1> QED
  BY <1>1, MergeInvariant, PTL

\* FindProvidersAsync of the dual DHT keeps the promise that each of its parts keeps.
THEOREM DualKeepsPromise == DualSpec => MergeKeepsPromise
<1>1. DualInit => Merged!Init
  BY DEF DualInit, MergeInit, WAN!Init, Merged!Init
<1>2. MergeTypes /\ MergeInv /\ [DualNext]_dualVars => [Merged!Next]_(Merged!streamVars)
  <2> SUFFICES ASSUME MergeTypes, MergeInv, [DualNext]_dualVars
               PROVE  [Merged!Next]_(Merged!streamVars)
    OBVIOUS
  <2> USE DEF provVars, mergeVars, Merged!streamVars
  <2>1. CASE Deliver
    <3>1. pi \in Provs
      BY <2>1 DEF Deliver, MergeTypes
    <3>2. Merged!Send(pi)
      BY <2>1, <3>1 DEF Deliver, Merged!Send, Merged!Sent, MergeInv, found, Elems
    <3> QED
      BY <3>1, <3>2 DEF Merged!Next
  <2>2. CASE DeliverCancelled \/ MergeEnds
    BY <2>2 DEF DeliverCancelled, MergeEnds, Merged!Next, Merged!Close
  <2>3. ASSUME NEW d \in Parts, Receive(d) \/ ReceiveClosed(d)
        PROVE  UNCHANGED Merged!streamVars
    BY <2>3 DEF Receive, ReceiveClosed
  <2>4. CASE WanSends \/ LanSends \/ WanCloses \/ LanCloses
    BY <2>4 DEF WanSends, LanSends, WanCloses, LanCloses, WAN!Send,
       LAN!Send, WAN!Close, LAN!Close
  <2>5. CASE UNCHANGED provVars
    BY <2>5
  <2> QED
    BY <2>1, <2>2, <2>3, <2>4, <2>5, DualSteps DEF MergeNext, MergeStep
<1> QED
  BY <1>1, <1>2, MergeInvariant, PTL DEF DualSpec, MergeKeepsPromise, Merged!Spec

\* The types of a call.
CallTypes ==
    /\ call \in Methods /\ announce \in BOOLEAN /\ wanActive \in BOOLEAN
    /\ ctxDone \in BOOLEAN /\ ctxErr \in {"nil", "Canceled", "DeadlineExceeded"}
    /\ ctxDone <=> ctxErr # "nil"
    /\ innerDone \in BOOLEAN /\ (innerDone => call = "Provide")
    /\ local \in [Parts -> BOOLEAN] /\ knows \in [Parts -> SUBSET Sources]
    /\ cancelled \in [Parts -> BOOLEAN]
    /\ part \in [Parts -> {"idle", "running", "lookup", "asking", "sending", "nil"} \cup Errors]
    /\ closest \in [Parts -> SUBSET Targets] /\ todo \in [Parts -> SUBSET Targets]
    /\ exceeded \in [Parts -> BOOLEAN]
    /\ key \in [Parts -> [Sources -> {"asking", "key", "error"}]]

\* What the parts of a parallel call have answered is what they have, but for the LAN that
\* is cancelled when the WAN has answered.
AnswerInv ==
    /\ \A d \in Parts : cancelled[d] =>
            call = "GetValue" /\ d = "lan" /\ part["wan"] = "nil"
    /\ \A d \in Parts : part[d] = "sending" => call \in Forwarded
    /\ call \in Parallel =>
         \A d \in Parts :
            /\ part[d] = "nil" => Has(d)
            /\ part[d] \in Errors /\ ~ctxDone => ~Has(d) \/ cancelled[d]
    /\ call = "GetPublicKey" =>
         \A d \in Parts :
            /\ part[d] = "asking" => ~local[d]
            /\ \A w \in Sources :
                  /\ key[d][w] = "key" => w \in knows[d]
                  /\ key[d][w] = "error" => w \notin knows[d] \/ ctxDone \/ Returned(d)

\* The part that a call is forwarded to, and what it has sent to the peers it found.
Chosen == IF wanActive THEN "wan" ELSE "lan"
SentInv ==
    call \in Forwarded =>
        \A d \in Parts :
            /\ d # Chosen => part[d] = "idle"
            /\ part[d] # "sending" => todo[d] = {}
            /\ exceeded[d] => call = "Provide"
            /\ part[d] = "sending" => exceeded[d] \/ closest[d] = Targets
            /\ part[d] = "nil" /\ (call = "Provide" => announce) /\ ~ctxDone => closest[d] = Targets
            /\ part[d] = "DeadlineExceeded" /\ ~ctxDone => exceeded[d]

\* The steps of a call other than the one that returns.
LEMMA CallSteps ==
    ASSUME [DualNext]_dualVars
    PROVE  \/ \E d \in Parts : PartNext(d)
           \/ CancelLan
           \/ TimeOut
           \/ \E e \in {"Canceled", "DeadlineExceeded"} : CancelCall(e)
           \/ UNCHANGED <<ctxDone, callVars, wanActive>>
  BY DEF DualNext, dualVars, CallStep, FindPeer, GetValue, GetPublicKey,
     Forward, BothInTurn, Return, ProvidersNext, MergeNext, MergeStep,
     Receive, ReceiveClosed, Deliver, DeliverCancelled, MergeEnds,
     WanSends, LanSends, WanCloses, LanCloses

\* The types of a call are kept by every step.
LEMMA CallTypeStep ==
    ASSUME CallTypes, [DualNext]_dualVars
    PROVE  CallTypes'
<1> USE DEF CallTypes, callVars, inputVars, ctxVars, sendVars, nil, Errors
<1>1. ASSUME NEW d \in Parts, CallPart(d) PROVE CallTypes'
  BY <1>1 DEF CallPart, PartAt
<1>2. ASSUME NEW d \in Parts, PartStep(d), UNCHANGED <<ctxDone, wanActive>>
      PROVE  CallTypes'
  <2>1. CASE \/ FindLocal(d) \/ FindPeerReturns(d) \/ KeyLocal(d) \/ KeyReturns(d)
             \/ ProvideLocal(d) \/ PutLocal(d) \/ NothingToSend(d) \/ SendingEnds(d)
             \/ OtherReturns(d)
    <3>1. \E l \in {"lookup", "asking", "nil"} \cup Errors : part' = [part EXCEPT ![d] = l]
      BY <2>1 DEF FindLocal, FindPeerReturns, KeyLocal, KeyReturns,
         ProvideLocal, PutLocal, NothingToSend, SendingEnds, OtherReturns, PartAt
    <3>2. UNCHANGED <<inputVars, ctxVars, sendVars, key>>
      BY <2>1 DEF FindLocal, FindPeerReturns, KeyLocal, KeyReturns,
         ProvideLocal, PutLocal, NothingToSend, SendingEnds, OtherReturns
    <3> QED
      BY <1>2, <3>1, <3>2
  <2>2. ASSUME NEW w \in Sources, KeyAnswer(d, w) PROVE CallTypes'
    <3>1. PICK a \in {"key", "error"} : key' = [key EXCEPT ![d] = [key[d] EXCEPT ![w] = a]]
      BY <2>2 DEF KeyAnswer
    <3>2. key' \in [Parts -> [Sources -> {"asking", "key", "error"}]]
      BY <3>1
    <3> QED
      BY <1>2, <2>2, <3>2 DEF KeyAnswer
  <2>3. CASE GetClosestPeers(d)
    <3>1. PICK ps1 \in SUBSET Targets :
            /\ closest' = [closest EXCEPT ![d] = ps1]
            /\ todo' = todo \/ todo' = [todo EXCEPT ![d] = ps1]
      BY <2>3 DEF GetClosestPeers
    <3>2. exceeded' = exceeded \/ \E b \in BOOLEAN : exceeded' = [exceeded EXCEPT ![d] = b]
      BY <2>3 DEF GetClosestPeers
    <3>3. \E l \in {"sending", "nil", "Canceled", "DeadlineExceeded"} : part' = [part EXCEPT ![d] = l]
      BY <2>3 DEF GetClosestPeers, PartAt, lookupErr
    <3>4. UNCHANGED <<inputVars, ctxVars, key>>
      BY <2>3 DEF GetClosestPeers
    <3> QED
      BY <1>2, <3>1, <3>2, <3>3, <3>4
  <2>4. ASSUME NEW p \in Targets, SentTo(d, p) PROVE CallTypes'
    BY <1>2, <2>4 DEF SentTo
  <2> QED
    BY <1>2, <2>1, <2>2, <2>3, <2>4 DEF PartStep
<1>3. CASE CancelLan
  BY <1>3 DEF CancelLan
<1>4. CASE TimeOut
  BY <1>4 DEF TimeOut, InnerDeadline
<1>5. ASSUME NEW e \in {"Canceled", "DeadlineExceeded"}, CancelCall(e) PROVE CallTypes'
  BY <1>5 DEF CancelCall
<1>6. CASE UNCHANGED <<ctxDone, callVars, wanActive>>
  BY <1>6
<1> QED
  BY <1>1, <1>2, <1>3, <1>4, <1>5, <1>6, CallSteps DEF PartNext

\* The invariants hold when a call begins.
LEMMA CallsInitTypes ==
    ASSUME DualInit
    PROVE  CallTypes /\ AnswerInv /\ SentInv
<1>1. /\ call \in Methods /\ announce \in BOOLEAN /\ wanActive \in BOOLEAN
      /\ ctxDone = FALSE /\ ctxErr = "nil" /\ innerDone = FALSE
      /\ cancelled = [d \in Parts |-> FALSE]
      /\ local \in [Parts -> BOOLEAN] /\ knows \in [Parts -> SUBSET Sources]
      /\ closest = [d \in Parts |-> {}] /\ todo = [d \in Parts |-> {}]
      /\ exceeded = [d \in Parts |-> FALSE]
      /\ key = [d \in Parts |-> [w \in Sources |-> "asking"]]
      /\ part = [d \in Parts |-> IF call \in Parallel THEN "running" ELSE "idle"]
  BY DualParts DEF DualInit, MergeInit, CallsInit, nil
<1>2. CallTypes
  BY <1>1 DEF CallTypes
<1>3. AnswerInv
  BY <1>1 DEF AnswerInv, Errors
<1>4. SentInv
  BY <1>1 DEF SentInv, Forwarded, Parallel
<1> QED
  BY <1>2, <1>3, <1>4

\* The answer of a part is kept until the call returns.
LEMMA AnswerInvStep ==
    ASSUME CallTypes, AnswerInv, [DualNext]_dualVars
    PROVE  AnswerInv'
<1> USE DEF CallTypes, callVars, inputVars, ctxVars, nil, Has
<1>1. ASSUME NEW d \in Parts, CallPart(d) PROVE AnswerInv'
  BY <1>1 DEF CallPart, PartAt, AnswerInv, Forwarded, InTurn, Parallel
<1>2. ASSUME NEW d \in Parts, PartStep(d), UNCHANGED <<ctxDone, wanActive>>
      PROVE  AnswerInv'
  <2>1. CASE FindLocal(d)
    BY <1>2, <2>1 DEF FindLocal, PartAt, AnswerInv, Errors
  <2>2. CASE FindPeerReturns(d)
    <3>1. ~ctxDone => CallErr(d) = "nil"
      BY <2>2 DEF FindPeerReturns, CallErr, AnswerInv
    <3> QED
      BY <1>2, <2>2, <3>1 DEF FindPeerReturns, PartAt, AnswerInv, Errors
  <2>3. CASE KeyLocal(d)
    BY <1>2, <2>3 DEF KeyLocal, PartAt, AnswerInv, Errors, Returned
  <2>4. CASE KeyReturns(d)
    <3>1. call = "GetPublicKey" /\ part[d] = "asking" /\ ~local[d] /\ ~Returned(d)
      BY <2>4 DEF KeyReturns, AnswerInv, Returned, Errors
    <3>2. CASE part' = [part EXCEPT ![d] = "nil"] /\ \E w \in Sources : key[d][w] = "key"
      <4>1. Has(d)
        BY <3>1, <3>2 DEF AnswerInv
      <4> QED
        BY <1>2, <2>4, <3>1, <3>2, <4>1 DEF KeyReturns, AnswerInv, Returned, Errors
    <3>3. CASE part' = [part EXCEPT ![d] = "ErrNotFound"] /\ \A w \in Sources : key[d][w] = "error"
      <4>1. ctxDone \/ ~Has(d)
        BY <3>1, <3>3 DEF AnswerInv
      <4> QED
        BY <1>2, <2>4, <3>1, <3>3, <4>1 DEF KeyReturns, AnswerInv, Returned, Errors
    <3> QED
      BY <2>4, <3>2, <3>3 DEF KeyReturns, PartAt
  <2>5. ASSUME NEW w \in Sources, KeyAnswer(d, w) PROVE AnswerInv'
    <3>1. PICK a \in {"key", "error"} :
            /\ key' = [key EXCEPT ![d] = [key[d] EXCEPT ![w] = a]]
            /\ a = "key" => w \in knows[d]
            /\ a = "error" => w \notin knows[d] \/ CallErr(d) # "nil" \/ Returned(d)
      BY <2>5 DEF KeyAnswer
    <3>2. ~ctxDone => CallErr(d) = "nil"
      BY <2>5 DEF KeyAnswer, CallErr, AnswerInv
    <3>3. \A x \in Parts, y \in Sources :
              key'[x][y] = IF x = d /\ y = w THEN a ELSE key[x][y]
      BY <3>1
    <3>4. UNCHANGED <<call, local, knows, ctxDone, cancelled, part>>
      BY <1>2, <2>5 DEF KeyAnswer
    <3> QED
      BY <3>1, <3>2, <3>3, <3>4 DEF AnswerInv, Returned
  <2>6. CASE OtherReturns(d)
    <3>1. PICK e \in Errors \cup {"nil"} :
            /\ e \in {"Canceled", "DeadlineExceeded"} => e = CallErr(d)
            /\ e = "nil" => Has(d)
            /\ e \in {"ErrLookupFailure", "ErrNotFound"} => ~Has(d)
            /\ e # "no addresses"
            /\ part' = [part EXCEPT ![d] = e]
      BY <2>6 DEF OtherReturns, PartAt
    <3>2. ~ctxDone /\ ~cancelled[d] => CallErr(d) = "nil"
      BY DEF CallErr
    <3>3. part[d] = "running" /\ call # "GetPublicKey"
      BY <2>6 DEF OtherReturns
    <3>4. UNCHANGED <<call, local, knows, ctxDone, cancelled, key>>
      BY <1>2, <2>6 DEF OtherReturns
    <3>5. e = "nil" \/ ctxDone \/ cancelled[d] \/ ~Has(d)
      BY <3>1, <3>2 DEF Errors
    <3>6. \A x \in Parts : cancelled[x] => part'["wan"] = "nil"
      BY <3>1, <3>3 DEF AnswerInv, Parts
    <3>7. \A x \in Parts \ {d} : part'[x] = part[x]
      BY <3>1
    <3>8. part'[d] = e /\ e # "sending"
      BY <3>1 DEF Errors
    <3>9. (\A x \in Parts : cancelled[x] => call = "GetValue" /\ x = "lan" /\ part["wan"] = "nil")'
      BY <3>4, <3>6 DEF AnswerInv
    <3>10. (\A x \in Parts : part[x] = "sending" => call \in Forwarded)'
      BY <3>4, <3>7, <3>8 DEF AnswerInv
    <3>11. ASSUME call \in Parallel, NEW x \in Parts
           PROVE  (/\ part[x] = "nil" => Has(x)
                   /\ part[x] \in Errors /\ ~ctxDone => ~Has(x) \/ cancelled[x])'
      <4>1. CASE x = d
        BY <3>1, <3>4, <3>5, <3>8, <4>1 DEF Errors
      <4>2. CASE x # d
        BY <3>4, <3>7, <3>11, <4>2 DEF AnswerInv
      <4> QED
        BY <4>1, <4>2
    <3> QED
      BY <3>3, <3>4, <3>9, <3>10, <3>11 DEF AnswerInv
  <2>7. CASE \/ ProvideLocal(d) \/ PutLocal(d) \/ GetClosestPeers(d)
             \/ NothingToSend(d)
    <3>1. call \in Forwarded /\ UNCHANGED <<call, cancelled>>
      BY <2>7 DEF ProvideLocal, PutLocal, GetClosestPeers, NothingToSend, Forwarded
    <3> QED
      BY <3>1 DEF AnswerInv, Forwarded, Parallel
  <2>8. ASSUME NEW p \in Targets, SentTo(d, p) PROVE AnswerInv'
    BY <1>2, <2>8 DEF SentTo, AnswerInv, Returned
  <2>9. CASE SendingEnds(d)
    <3>1. call \in Forwarded /\ UNCHANGED <<call, cancelled>>
      BY <2>9 DEF SendingEnds, AnswerInv
    <3> QED
      BY <3>1 DEF AnswerInv, Forwarded, Parallel
  <2> QED
    BY <1>2, <2>1, <2>2, <2>3, <2>4, <2>5, <2>6, <2>7, <2>8, <2>9 DEF PartStep
<1>3. CASE CancelLan
  BY <1>3 DEF CancelLan, AnswerInv, Returned
<1>4. CASE TimeOut
  BY <1>4 DEF TimeOut, InnerDeadline, AnswerInv, Returned
<1>5. ASSUME NEW e \in {"Canceled", "DeadlineExceeded"}, CancelCall(e) PROVE AnswerInv'
  BY <1>5 DEF CancelCall, AnswerInv, Returned
<1>6. CASE UNCHANGED <<ctxDone, callVars, wanActive>>
  BY <1>6 DEF AnswerInv, Returned
<1> QED
  BY <1>1, <1>2, <1>3, <1>4, <1>5, <1>6, CallSteps DEF PartNext

\* A forwarded call sends to the peers its part has found.
LEMMA SentInvStep ==
    ASSUME CallTypes, SentInv, [DualNext]_dualVars
    PROVE  SentInv'
<1> USE DEF CallTypes, callVars, inputVars, ctxVars, sendVars, nil, Chosen
<1>1. ASSUME NEW d \in Parts, CallPart(d) PROVE SentInv'
  BY <1>1 DEF CallPart, PartAt, SentInv, Forwarded, InTurn
<1>2. ASSUME NEW d \in Parts, PartStep(d), UNCHANGED <<ctxDone, wanActive>>
      PROVE  SentInv'
  <2>1. CASE \/ FindLocal(d) \/ FindPeerReturns(d) \/ KeyLocal(d) \/ KeyReturns(d)
             \/ OtherReturns(d) \/ \E w \in Sources : KeyAnswer(d, w)
    <3>1. call \notin Forwarded /\ UNCHANGED call
      BY <2>1 DEF FindLocal, FindPeerReturns, KeyLocal, KeyReturns,
         OtherReturns, KeyAnswer, Forwarded
    <3> QED
      BY <3>1 DEF SentInv
  <2>2. CASE ProvideLocal(d)
    BY <1>2, <2>2 DEF ProvideLocal, PartAt, SentInv
  <2>3. CASE PutLocal(d)
    BY <1>2, <2>3 DEF PutLocal, PartAt, SentInv
  <2>4. CASE NothingToSend(d)
    <3>1. /\ part[d] = "lookup"
          /\ \E l \in {"ErrLookupFailure", "no addresses"} : part' = [part EXCEPT ![d] = l]
      BY <2>4 DEF NothingToSend, PartAt
    <3>2. UNCHANGED <<call, announce, ctxDone, wanActive, closest, todo, exceeded>>
      BY <1>2, <2>4 DEF NothingToSend
    <3> QED
      BY <3>1, <3>2 DEF SentInv
  <2>5. CASE GetClosestPeers(d)
    <3>1. PICK ps1 \in SUBSET Targets :
            /\ lookupErr = "nil" => ps1 = Targets
            /\ closest' = [closest EXCEPT ![d] = ps1]
            /\ IF WorthSending
               THEN /\ part' = [part EXCEPT ![d] = "sending"] /\ todo' = [todo EXCEPT ![d] = ps1]
                    /\ exceeded' = [exceeded EXCEPT ![d] = lookupErr # "nil"]
               ELSE /\ part' = [part EXCEPT ![d] = IF innerDone /\ ctxErr # "nil" THEN ctxErr
                                                   ELSE lookupErr]
                    /\ UNCHANGED <<todo, exceeded>>
      BY <2>5 DEF GetClosestPeers, PartAt
    <3>2. part[d] = "lookup" /\ UNCHANGED <<call, announce, ctxDone, wanActive>>
      BY <1>2, <2>5 DEF GetClosestPeers
    <3>3. CASE WorthSending
      <4>1. lookupErr # "nil" => call = "Provide"
        BY <3>3 DEF WorthSending
      <4>2. /\ closest'[d] = ps1 /\ part'[d] = "sending" /\ (exceeded'[d] <=> lookupErr # "nil")
            /\ \A x \in Parts \ {d} : /\ closest'[x] = closest[x] /\ part'[x] = part[x]
                                          /\ todo'[x] = todo[x] /\ exceeded'[x] = exceeded[x]
        BY <3>1, <3>3
      <4>3. call \in Forwarded => d = Chosen
        BY <3>2 DEF SentInv
      <4> QED
        BY <3>1, <3>2, <4>1, <4>2, <4>3 DEF SentInv
    <3>4. CASE ~WorthSending
      <4>1. ctxDone
        BY <3>4 DEF WorthSending, lookupErr
      <4>2. \E l \in {"Canceled", "DeadlineExceeded"} : part' = [part EXCEPT ![d] = l]
        BY <3>1, <3>4, <4>1 DEF lookupErr
      <4> QED
        BY <3>1, <3>2, <3>4, <4>1, <4>2 DEF SentInv
    <3> QED
      BY <3>3, <3>4
  <2>6. ASSUME NEW p \in Targets, SentTo(d, p) PROVE SentInv'
    BY <1>2, <2>6 DEF SentTo, SentInv
  <2>7. CASE SendingEnds(d)
    BY <1>2, <2>7 DEF SendingEnds, PartAt, SentInv, Forwarded
  <2> QED
    BY <1>2, <2>1, <2>2, <2>3, <2>4, <2>5, <2>6, <2>7 DEF PartStep
<1>3. CASE CancelLan
  BY <1>3 DEF CancelLan, SentInv
<1>4. CASE TimeOut
  BY <1>4 DEF TimeOut, InnerDeadline, SentInv
<1>5. ASSUME NEW e \in {"Canceled", "DeadlineExceeded"}, CancelCall(e) PROVE SentInv'
  BY <1>5 DEF CancelCall, SentInv
<1>6. CASE UNCHANGED <<ctxDone, callVars, wanActive>>
  BY <1>6 DEF SentInv
<1> QED
  BY <1>1, <1>2, <1>3, <1>4, <1>5, <1>6, CallSteps DEF PartNext

\* A part that has returned does nothing more that its caller sees.
LEMMA ReturnedStays ==
    ASSUME CallTypes, NEW d \in Parts, PartNext(d), NEW x \in Parts, Returned(x)
    PROVE  Returned(x)' /\ part'[x] = part[x]
<1> USE DEF Returned, Errors, PartAt, nil, CallTypes
<1>1. CASE CallPart(d)
  BY <1>1 DEF CallPart
<1>2. CASE \/ FindLocal(d) \/ FindPeerReturns(d) \/ KeyLocal(d) \/ KeyReturns(d)
           \/ ProvideLocal(d) \/ PutLocal(d) \/ NothingToSend(d) \/ SendingEnds(d)
           \/ OtherReturns(d) \/ GetClosestPeers(d)
  <2>1. part[d] \in {"running", "lookup", "asking", "sending"} /\ \E l : part' = [part EXCEPT ![d] = l]
    BY <1>2 DEF FindLocal, FindPeerReturns, KeyLocal, KeyReturns,
       ProvideLocal, PutLocal, NothingToSend, SendingEnds, OtherReturns,
       GetClosestPeers
  <2> QED
    BY <2>1
<1>3. CASE (\E w \in Sources : KeyAnswer(d, w)) \/ (\E p \in Targets : SentTo(d, p))
  BY <1>3 DEF KeyAnswer, SentTo
<1> QED
  BY <1>1, <1>2, <1>3 DEF PartNext, PartStep

\* What a forwarded call has returned is the error of the part it was forwarded to.
ForwardInv ==
    ret # NoReturn /\ call \in Forwarded => Returned(Chosen) /\ ret.err = part[Chosen]

\* A forwarded call returns what its part returned.
LEMMA ForwardInvStep ==
    ASSUME CallTypes, SentInv, ForwardInv, [DualNext]_dualVars
    PROVE  ForwardInv'
<1> SUFFICES ASSUME ret' # NoReturn, call' \in Forwarded
             PROVE  (Returned(Chosen) /\ ret.err = part[Chosen])'
  BY DEF ForwardInv, NoReturn, Forwarded
<1>0. Chosen \in Parts
  BY DEF Chosen, Parts
<1> USE DEF callVars, inputVars, Forwarded, Parallel, InTurn
<1>1. CASE Forward
  <2>1. PICK d \in Parts : Returned(d) /\ Return(part[d], Answered)
    BY <1>1 DEF Forward
  <2>2. UNCHANGED <<call, part, wanActive>> /\ ret'.err = part[d]
    BY <2>1 DEF Return
  <2>3. d = Chosen
    BY <2>1, <2>2 DEF SentInv, Returned, Errors, nil
  <2> QED
    BY <2>1, <2>2, <2>3 DEF Chosen, Returned
<1>2. ASSUME NEW d \in Parts, PartNext(d)
      PROVE  (Returned(Chosen) /\ ret.err = part[Chosen])'
  <2>1. UNCHANGED <<call, wanActive, ret>>
    BY <1>2 DEF PartNext, CallPart, PartStep, FindLocal, FindPeerReturns,
       KeyLocal, KeyReturns, ProvideLocal, PutLocal, NothingToSend,
       SendingEnds, OtherReturns, GetClosestPeers, KeyAnswer, SentTo
  <2>2. Returned(Chosen) /\ ret.err = part[Chosen]
    BY <2>1 DEF ForwardInv
  <2>3. Chosen' = Chosen
    BY <2>1 DEF Chosen
  <2>4. Returned(Chosen)' /\ part'[Chosen] = part[Chosen]
    BY <1>0, <1>2, <2>2, <2>3, ReturnedStays DEF Returned
  <2> QED
    BY <2>1, <2>2, <2>3, <2>4
<1>3. CASE CancelLan \/ TimeOut \/ (\E e \in {"Canceled", "DeadlineExceeded"} : CancelCall(e))
            \/ ProvidersNext \/ UNCHANGED dualVars
  BY <1>3 DEF CancelLan, TimeOut, InnerDeadline, CancelCall, ProvidersNext,
     dualVars, ForwardInv, Chosen, Returned
<1>4. CASE FindPeer \/ GetValue \/ GetPublicKey \/ BothInTurn
  BY <1>4 DEF FindPeer, GetValue, GetPublicKey, BothInTurn, Return
<1> QED
  BY <1>1, <1>2, <1>3, <1>4 DEF DualNext, CallStep

\* The inductive invariant of the calls.
LEMMA CallInvariant == DualSpec => [](CallTypes /\ AnswerInv /\ SentInv /\ ForwardInv)
<1>1. DualInit => CallTypes /\ AnswerInv /\ SentInv /\ ForwardInv
  BY CallsInitTypes DEF DualInit, ForwardInv
<1>2. CallTypes /\ AnswerInv /\ SentInv /\ ForwardInv /\ [DualNext]_dualVars
        => (CallTypes /\ AnswerInv /\ SentInv /\ ForwardInv)'
  BY CallTypeStep, AnswerInvStep, SentInvStep, ForwardInvStep
<1> QED
  BY <1>1, <1>2, PTL DEF DualSpec

\* When Provide or PutValue has returned, all peers its lookup found have been sent to.
THEOREM ForwardedToAll == DualSpec => []AnnouncedToAll
<1>1. CallTypes /\ SentInv /\ ForwardInv => AnnouncedToAll
  <2>1. Chosen \in Parts
    BY DEF Chosen, Parts
  <2> QED
    BY <2>1 DEF SentInv, ForwardInv, AnnouncedToAll, Chosen, Returned, Errors, nil
<1> QED
  BY <1>1, CallInvariant, PTL

\* The errors of two parts that have both failed make an error.
LEMMA BothErrorsFail ==
    ASSUME part["wan"] \in Errors, part["lan"] \in Errors
    PROVE  bothErrors # "nil"
  BY DEF bothErrors, combineErrors, Errors

\* What a call returns when all of its parts that had to be waited for have returned.
LEMMA ReturnsAnswer ==
    ASSUME CallTypes, AnswerInv, ~ctxDone,
           FindPeer \/ GetValue \/ GetPublicKey
    PROVE  /\ call = "FindPeer" => ret'.from = {d \in Parts : Has(d)}
           /\ call = "GetValue" =>
                ret'.from = IF Has("wan") THEN {"wan"} ELSE {d \in {"lan"} : Has(d)}
           /\ call = "GetPublicKey" => (ret'.from # {} <=> \E d \in Parts : Has(d))
           /\ ret'.err = "nil" <=> ret'.from # {}
<1> DEFINE A == Answered
<1>1. A = {d \in Parts : part[d] = "nil"} /\ Parts = {"wan", "lan"}
  BY DEF Answered, nil, Parts
<1>2. call \in Parallel
  BY DEF FindPeer, GetValue, GetPublicKey, Parallel
<1>3. \A d \in A : Has(d)
  BY <1>1, <1>2 DEF AnswerInv
<1>4. ASSUME NEW d \in Parts, Returned(d), d \notin A, d = "lan" => "wan" \notin A \/ call # "GetValue"
      PROVE  ~Has(d)
  <2>1. part[d] \in Errors
    BY <1>1, <1>4 DEF Returned, nil
  <2>2. ~cancelled[d]
    BY <1>1, <1>4 DEF AnswerInv
  <2> QED
    BY <1>2, <2>1, <2>2 DEF AnswerInv
<1>5. (\A d \in Parts : Returned(d)) /\ A = {} => bothErrors # "nil"
  BY <1>1, BothErrorsFail DEF Returned, nil
<1> HIDE DEF A
<1>6. CASE FindPeer
  <2>1. call = "FindPeer" /\ \A d \in Parts : Returned(d)
    BY <1>6 DEF FindPeer
  <2>2. ret' = [err |-> IF A # {} THEN "nil" ELSE bothErrors, from |-> A]
    BY <1>6 DEF FindPeer, Return, A, nil
  <2>3. A = {d \in Parts : Has(d)}
    BY <1>1, <1>3, <1>4, <2>1
  <2> QED
    BY <1>5, <2>1, <2>2, <2>3
<1>7. CASE GetValue
  <2>1. call = "GetValue" /\ \A d \in Parts : Returned(d)
    BY <1>7 DEF GetValue
  <2>2. ret' = IF A = {} THEN [err |-> bothErrors, from |-> {}]
               ELSE [err |-> "nil", from |-> IF "wan" \in A THEN {"wan"} ELSE {"lan"}]
    BY <1>7 DEF GetValue, Return, A, nil
  <2>3. A \subseteq {"wan", "lan"} /\ ("wan" \notin A => ~Has("wan"))
    BY <1>1, <1>4, <2>1
  <2>4. A = {} => ~Has("lan")
    BY <1>1, <1>4, <2>1
  <2> QED
    BY <1>3, <1>5, <2>1, <2>2, <2>3, <2>4
<1>8. CASE GetPublicKey
  <2>1. call = "GetPublicKey" /\ ctxErr = "nil"
    BY <1>8 DEF GetPublicKey, CallTypes
  <2>2. CASE \E d \in A : Return("nil", {d})
    <3>1. PICK d \in A : ret' = [err |-> "nil", from |-> {d}]
      BY <2>2 DEF Return
    <3> QED
      BY <1>1, <1>3, <2>1, <3>1
  <2>3. CASE (\A d \in Parts : Returned(d)) /\ A = {} /\ Return(bothErrors, {})
    <3>1. ret' = [err |-> bothErrors, from |-> {}]
      BY <2>3 DEF Return
    <3>2. \A d \in Parts : ~Has(d)
      BY <1>4, <2>1, <2>3
    <3> QED
      BY <1>5, <2>1, <2>3, <3>1, <3>2
  <2> QED
    BY <1>8, <2>1, <2>2, <2>3 DEF GetPublicKey, A, nil
<1> QED
  BY <1>6, <1>7, <1>8

\* What one of the parts of the dual DHT has is returned, unless the caller cancels.
THEOREM NoAnswerLost == DualSpec => []AnswerNotLost
<1>1. DualInit => AnswerNotLost
  BY DEF DualInit, AnswerNotLost
<1>2. CallTypes /\ AnswerInv /\ AnswerNotLost /\ [DualNext]_dualVars => AnswerNotLost'
  <2> SUFFICES ASSUME CallTypes, AnswerInv, AnswerNotLost, [DualNext]_dualVars
               PROVE  AnswerNotLost'
    OBVIOUS
  <2>1. UNCHANGED inputVars
    <3>1. ASSUME NEW d \in Parts, PartNext(d) PROVE UNCHANGED inputVars
      BY <3>1 DEF PartNext, CallPart, PartStep, FindLocal, FindPeerReturns,
         KeyLocal, KeyReturns, ProvideLocal, PutLocal, NothingToSend,
         SendingEnds, OtherReturns, GetClosestPeers, KeyAnswer, SentTo
    <3> QED
      BY <3>1, CallSteps DEF CancelLan, TimeOut, InnerDeadline, CancelCall, callVars
  <2>2. UNCHANGED <<call, local, knows>> /\ \A d : Has(d)' = Has(d)
    BY <2>1 DEF inputVars, Has
  <2>3. CASE ret' = ret /\ (ctxDone => ctxDone')
    BY <2>2, <2>3 DEF AnswerNotLost
  <2>4. CASE FindPeer \/ GetValue \/ GetPublicKey
    <3>1. ctxDone' = ctxDone
      BY <2>4 DEF FindPeer, GetValue, GetPublicKey, Return
    <3> QED
      BY <2>2, <2>4, <3>1, ReturnsAnswer DEF AnswerNotLost, nil
  <2>5. CASE Forward \/ BothInTurn
    <3>1. call \in Forwarded \cup InTurn
      BY <2>5 DEF Forward, BothInTurn
    <3> QED
      BY <2>2, <3>1 DEF AnswerNotLost, Forwarded, InTurn, Parallel
  <2>6. ASSUME NEW d \in Parts, PartNext(d) PROVE ret' = ret /\ ctxDone' = ctxDone
    BY <2>6 DEF PartNext, CallPart
  <2>7. CASE ProvidersNext
    BY <2>3, <2>7 DEF ProvidersNext, MergeNext, MergeStep, Receive,
       ReceiveClosed, Deliver, DeliverCancelled, MergeEnds,
       WanSends, LanSends, WanCloses, LanCloses
  <2>8. CASE CancelLan \/ TimeOut \/ (\E e \in {"Canceled", "DeadlineExceeded"} : CancelCall(e))
              \/ UNCHANGED dualVars
    BY <2>3, <2>8 DEF CancelLan, TimeOut, CancelCall, dualVars
  <2> QED
    BY <2>3, <2>4, <2>5, <2>6, <2>7, <2>8 DEF DualNext, CallStep
<1> QED
  BY <1>1, <1>2, CallInvariant, PTL DEF DualSpec
=============================================================================
