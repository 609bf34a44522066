------------------------------ MODULE RpcTracker ------------------------------
(***************************************************************************)
(* The RPC tracker (tracker.py) that hands device servers (server.py) to   *)
(* measuring clients (client.py).  A server offers a match key; the tracker*)
(* passes each key to one waiting client, best priority first; the client  *)
(* shows the key to the server and gets a session.  Clients die, the       *)
(* tracker restarts, and a key whose client never comes must be replaced.  *)
(*                                                                         *)
(* A message to the tracker and its answer are one step: the sender waits, *)
(* and the tracker handles its events one at a time.                       *)
(***************************************************************************)
EXTENDS Integers, FiniteSets, Sequences, Functions

CONSTANTS
  Servers, Clients,
  Priority,        \* [Clients -> Nat]
  MaxRetry,        \* max_retry of TrackerSession.request
  Patience,        \* pings that may find the key taken before it is replaced
  MaxRestarts,     \* bound on restarts of the tracker
  MaxDeaths        \* bound on deaths of clients

ASSUME TrackerAssumption == /\ IsFiniteSet(Servers) /\ IsFiniteSet(Clients)
                            /\ "none" \notin Servers
                            /\ Priority \in [Clients -> Nat]
                            /\ MaxRetry \in Nat \ {0} /\ Patience \in Nat
                            /\ MaxRestarts \in Nat /\ MaxDeaths \in Nat

VARIABLES
  (* servers: tracker_conn is the number of the connection, 0 for None *)
  serverState, tracker_conn, opened, matchkey, unmatch_period_count,
  (* tracker *)
  connections, values, requests, pending_matchkeys, restarts,
  (* clients: grant is the value a client was given *)
  clientState, tries, grant

servers == <<serverState, tracker_conn, opened, matchkey, unmatch_period_count>>
tracker == <<connections, values, requests, pending_matchkeys, restarts>>
clients == <<clientState, tries, grant>>
trackerVars == <<servers, tracker, clients>>

NoGrant == [server |-> "none", conn |-> 0, key |-> 0]

InitTracker ==
  /\ serverState = [s \in Servers |-> "connect"]
  /\ tracker_conn = [s \in Servers |-> 0] /\ opened = tracker_conn
  /\ matchkey = [s \in Servers |-> 0] /\ unmatch_period_count = matchkey
  /\ connections = {} /\ values = <<>> /\ requests = <<>>
  /\ pending_matchkeys = [s \in Servers |-> {}]      \* of its tracker_conn
  /\ restarts = 0
  /\ clientState = [c \in Clients |-> "start"] /\ tries = [c \in Clients |-> 0]
  /\ grant = [c \in Clients |-> NoGrant]

-----------------------------------------------------------------------------
(* PriorityScheduler. *)

Gone(c) == clientState[c] = "dead"

(* Sending to a dead client may still succeed. *)
Outcomes == SUBSET {c \in Range(requests) : Gone(c)}

(* A value whose client cannot be reached goes to the end of the values. *)
Requeued(offers) == Append(Tail(offers), Head(offers))

Reached(c, heard) == ~Gone(c) \/ c \in heard

(* One round of the loop of _schedule only. *)
DealOne(offers, waiting, heard) ==
  IF offers = <<>> \/ waiting = <<>>
  THEN [values |-> offers, requests |-> waiting, given |-> {}]
  ELSE IF Reached(Head(waiting), heard)
  THEN [values |-> Tail(offers), requests |-> Tail(waiting),
        given |-> {<<Head(waiting), Head(offers)>>}]
  ELSE [values |-> Requeued(offers), requests |-> Tail(waiting), given |-> {}]

(* One request is popped, and gets the first value if it can be reached. *)
Served(d, c, heard) ==
  IF d.values = <<>> THEN [d EXCEPT !.requests = Append(@, c)]
  ELSE IF Reached(c, heard)
  THEN [d EXCEPT !.values = Tail(@), !.given = @ \cup {<<c, Head(d.values)>>}]
  ELSE [d EXCEPT !.values = Requeued(@)]

(* _schedule: all requests in their order, as long as there are values. *)
Deal(offers, waiting, heard) ==
  LET dealt[n \in 0 .. Len(waiting)] ==
        IF n = 0 THEN [values |-> offers, requests |-> <<>>, given |-> {}]
        ELSE Served(dealt[n - 1], waiting[n], heard)
  IN  dealt[Len(waiting)]

(* The tracker after an event that left it with these offers, waiting      *)
(* requests, pending match keys and client states.                         *)
Schedule(offers, waiting, pending, states, heard) ==
  LET d == Deal(offers, waiting, heard)
      taken == {g[2] : g \in d.given}
      Gets(c) == states[c] = "queued" /\ \E g \in d.given : g[1] = c
  IN  /\ values' = d.values /\ requests' = d.requests
      /\ pending_matchkeys' =
           [s \in Servers |-> pending[s] \ {v.key : v \in {w \in taken : w.server = s}}]
      /\ clientState' = [c \in Clients |-> IF Gets(c) THEN "granted" ELSE states[c]]
      /\ grant' = [c \in Clients |-> IF Gets(c) THEN (CHOOSE g \in d.given : g[1] = c)[2]
                                     ELSE grant[c]]

(* PUT on connection e of server s. *)
Put(s, e, key, pending, heard) ==
  Schedule(Append(values, [server |-> s, conn |-> e, key |-> key]), requests,
           [pending EXCEPT ![s] = @ \cup {key}], clientState, heard)

-----------------------------------------------------------------------------
(* _listen_loop of a server. *)

Connected(s) == <<s, tracker_conn[s]>> \in connections

KeyAgain(s) == IF matchkey[s] = 0 THEN 1 ELSE matchkey[s]

NewKey(s) == matchkey[s] + 1

(* Connect, UPDATE_INFO, and the first PUT of _accept_conn. *)
Register(s) ==
  /\ serverState[s] = "connect"
  /\ serverState' = [serverState EXCEPT ![s] = "wait"]
  /\ opened' = [opened EXCEPT ![s] = @ + 1]
  /\ tracker_conn' = [tracker_conn EXCEPT ![s] = opened'[s]]
  /\ connections' = connections \cup {<<s, opened'[s]>>}
  /\ matchkey' = [matchkey EXCEPT ![s] = NewKey(s)]
  /\ unmatch_period_count' = [unmatch_period_count EXCEPT ![s] = 0]
  /\ \E heard \in Outcomes :
       Put(s, opened'[s], NewKey(s), [pending_matchkeys EXCEPT ![s] = {}], heard)
  /\ UNCHANGED <<restarts, tries>>

(* A socket error of any kind: the connection to the tracker is dropped. *)
Drop(s) ==
  /\ serverState' = [serverState EXCEPT ![s] = "connect"]
  /\ tracker_conn' = [tracker_conn EXCEPT ![s] = 0]
  /\ UNCHANGED <<opened, matchkey, unmatch_period_count, tracker>>

(* PUT of a fresh key on the connection there is. *)
Offer(s) ==
  /\ matchkey' = [matchkey EXCEPT ![s] = NewKey(s)]
  /\ serverState' = [serverState EXCEPT ![s] = "wait"]
  /\ unmatch_period_count' = [unmatch_period_count EXCEPT ![s] = 0]
  /\ \E heard \in Outcomes :
       Put(s, tracker_conn[s], NewKey(s), pending_matchkeys, heard)
  /\ UNCHANGED <<tracker_conn, opened, connections, restarts, tries>>

(* After a session. *)
OfferAgain(s) ==
  /\ serverState[s] = "offer"
  /\ IF Connected(s) THEN Offer(s) ELSE Drop(s) /\ UNCHANGED clients

Arrived(s) == {c \in Clients : /\ clientState[c] \in {"arrived", "dead"}
                               /\ grant[c].server = s}

(* select() times out: nobody has connected for a ping period. *)
Ping(s) ==
  /\ serverState[s] = "wait" /\ Arrived(s) = {}
  /\ serverState' = [serverState EXCEPT ![s] = "ping"]
  /\ UNCHANGED <<tracker_conn, opened, matchkey, unmatch_period_count, tracker, clients>>

CountedAlways(s) == unmatch_period_count[s] + 1
CountedAnew(s) == IF matchkey[s] \in pending_matchkeys[s] THEN 0 ELSE 1

(* Pings in a row that found the key acquired and not used. *)
Counted(s) ==
  IF matchkey[s] \in pending_matchkeys[s] THEN 0 ELSE unmatch_period_count[s] + 1


(* GET_PENDING_MATCHKEYS, and a new key if the old one is lost. *)
Pong(s) ==
  /\ serverState[s] = "ping"
  /\ IF ~Connected(s) THEN Drop(s) /\ UNCHANGED clients
     ELSE IF Counted(s) > Patience THEN Offer(s)
     ELSE /\ unmatch_period_count' = [unmatch_period_count EXCEPT ![s] = Counted(s)]
          /\ serverState' = [serverState EXCEPT ![s] = "wait"]
          /\ UNCHANGED <<tracker_conn, opened, matchkey, tracker, clients>>

(* One of the clients that connected is accepted and shows its key. *)
Welcome(s, c) ==
  /\ serverState[s] = "wait" /\ c \in Arrived(s) /\ grant[c].key = matchkey[s]
  /\ serverState' = [serverState EXCEPT ![s] = "serve"]
  /\ clientState' = [clientState EXCEPT ![c] = IF Gone(c) THEN "dead" ELSE "session"]
  /\ grant' = [grant EXCEPT ![c] = IF Gone(c) THEN NoGrant ELSE @]
  /\ UNCHANGED <<tracker_conn, opened, matchkey, unmatch_period_count, tracker, tries>>

(* TrackerSession.request tries again, or gives up. *)
TryAgain(c) ==
  /\ clientState' = [clientState EXCEPT ![c] = IF Gone(c) THEN "dead"
                                               ELSE IF tries[c] < MaxRetry THEN "start"
                                               ELSE "failed"]
  /\ grant' = [grant EXCEPT ![c] = NoGrant]
  /\ UNCHANGED tries

(* RPC_CODE_MISMATCH, for a key that was replaced in the meantime. *)
Mismatch(s, c) ==
  /\ serverState[s] = "wait" /\ c \in Arrived(s) /\ grant[c].key # matchkey[s]
  /\ TryAgain(c)
  /\ UNCHANGED <<servers, tracker>>

(* The handshake with a dead client fails with a socket error. *)
Broken(s, c) ==
  /\ serverState[s] = "wait" /\ c \in Arrived(s) /\ Gone(c)
  /\ grant' = [grant EXCEPT ![c] = NoGrant]
  /\ Drop(s)
  /\ UNCHANGED <<clientState, tries>>

InSession(s) == {c \in Clients : clientState[c] = "session" /\ grant[c].server = s}

(* The session is over, or is killed at its timeout. *)
EndSession(s) ==
  /\ serverState[s] = "serve"
  /\ serverState' = [serverState EXCEPT ![s] = "offer"]
  /\ clientState' = [c \in Clients |-> IF c \in InSession(s) THEN "failed" ELSE clientState[c]]
  /\ grant' = [c \in Clients |-> IF c \in InSession(s) THEN NoGrant ELSE grant[c]]
  /\ UNCHANGED <<tracker_conn, opened, matchkey, unmatch_period_count, tracker, tries>>

-----------------------------------------------------------------------------
(* Clients, and what befalls the tracker. *)

FirstCome(c) == Append(requests, c)

(* The heap of requests: highest priority first, then first come. *)
Queued(c) ==
  LET before == {i \in DOMAIN requests : Priority[requests[i]] >= Priority[c]}
      n == Cardinality(before)
  IN  [i \in 1 .. Len(requests) + 1 |-> IF i <= n THEN requests[i]
                                       ELSE IF i = n + 1 THEN c ELSE requests[i - 1]]

Request(c) ==
  /\ clientState[c] = "start"
  /\ tries' = [tries EXCEPT ![c] = @ + 1]
  /\ \E heard \in Outcomes :
       Schedule(values, Queued(c), pending_matchkeys,
                [clientState EXCEPT ![c] = "queued"], heard)
  /\ UNCHANGED <<servers, connections, restarts>>

Arrive(c) ==
  /\ clientState[c] = "granted"
  /\ clientState' = [clientState EXCEPT ![c] = "arrived"]
  /\ UNCHANGED <<servers, tracker, tries, grant>>

Finish(c) ==
  /\ clientState[c] = "session"
  /\ clientState' = [clientState EXCEPT ![c] = "done"]
  /\ grant' = [grant EXCEPT ![c] = NoGrant]
  /\ UNCHANGED <<servers, tracker, tries>>

(* recvjson fails: the tracker that had the request is gone. *)
TrackerLost(c) ==
  /\ clientState[c] = "queued" /\ c \notin Range(requests)
  /\ TryAgain(c)
  /\ UNCHANGED <<servers, tracker>>

ClientDies(c) ==
  /\ Cardinality({d \in Clients : Gone(d)}) < MaxDeaths
  /\ clientState[c] \notin {"dead", "done", "failed"}
  /\ clientState' = [clientState EXCEPT ![c] = "dead"]
  /\ grant' = [grant EXCEPT ![c] = IF clientState[c] = "arrived" THEN @ ELSE NoGrant]
  /\ UNCHANGED <<servers, tracker, tries>>

CloseForgets(s, e) == values

(* remove() of every value the connection had put. *)
WithoutConn(s, e) ==
  LET PutOn(v) == v.server = s /\ v.conn = e
      kept[n \in 0 .. Len(values)] ==
        IF n = 0 THEN <<>>
        ELSE IF PutOn(values[n]) THEN kept[n - 1] ELSE Append(kept[n - 1], values[n])
  IN  kept[Len(values)]

(* The tracker notices that a server dropped its connection. *)
Close(s, e) ==
  /\ <<s, e>> \in connections /\ tracker_conn[s] # e
  /\ connections' = connections \ {<<s, e>>}
  /\ \E heard \in Outcomes :
       Schedule(WithoutConn(s, e), requests, pending_matchkeys, clientState, heard)
  /\ UNCHANGED <<servers, restarts, tries>>

Restart ==
  /\ restarts < MaxRestarts
  /\ restarts' = restarts + 1
  /\ connections' = {} /\ values' = <<>> /\ requests' = <<>>
  /\ pending_matchkeys' = [s \in Servers |-> {}]
  /\ UNCHANGED <<servers, clients>>

ServerStep(s) ==
  \/ Register(s) \/ OfferAgain(s) \/ Ping(s) \/ Pong(s) \/ EndSession(s)
  \/ \E c \in Clients : Welcome(s, c) \/ Mismatch(s, c) \/ Broken(s, c)

ClientStep(c) == Request(c) \/ Arrive(c) \/ Finish(c) \/ TrackerLost(c)

TrackerNext ==
  \/ \E s \in Servers : ServerStep(s)
  \/ \E c \in Clients : ClientStep(c) \/ ClientDies(c)
  \/ \E k \in connections : Close(k[1], k[2])
  \/ Restart

TrackerSpec == InitTracker /\ [][TrackerNext]_trackerVars

(* Every process that has not died goes on; nobody has to die or restart. *)
FairTrackerSpec ==
  /\ TrackerSpec
  /\ \A s \in Servers : WF_trackerVars(ServerStep(s))
  /\ \A c \in Clients : WF_trackerVars(ClientStep(c))

-----------------------------------------------------------------------------
Registered(s) == serverState[s] # "connect" /\ Connected(s)
KeysOffered(s, e) == {v.key : v \in {w \in Range(values) : w.server = s /\ w.conn = e}}

(* What GET_PENDING_MATCHKEYS tells a server is what the tracker still has *)
(* to give away for it, one key at most, and nothing on offer belongs to a *)
(* connection that was closed: a value that is lost or left over when a    *)
(* client refuses it or a connection ends would take a device out of use.  *)
OffersArePending ==
  /\ \A s \in Servers : Registered(s) =>
       /\ pending_matchkeys[s] = KeysOffered(s, tracker_conn[s])
       /\ Cardinality(pending_matchkeys[s]) <= 1
  /\ \A v \in Range(values) : <<v.server, v.conn>> \in connections

Holds(c) == clientState[c] \in {"granted", "arrived", "session"}

(* No match key is given to two clients, nor offered again after a client  *)
(* got it, also when the client is slow and the server gave up on it.      *)
KeysGrantedOnce ==
  \A c \in Clients : Holds(c) =>
    /\ grant[c] \notin Range(values)
    /\ \A d \in Clients \ {c} : Holds(d) => grant[c] # grant[d]

(* The tracker never keeps a free device and a waiting client apart. *)
NoIdleDevice == values = <<>> \/ requests = <<>>

ByPriority ==
  \A c \in Clients : clientState[c] # "granted" /\ clientState'[c] = "granted" =>
    \A d \in Range(requests') : Priority[d] <= Priority[c]

(* A client that is given a device leaves nobody of a higher priority      *)
(* waiting, whatever requests could not be answered in between.            *)
GrantsFollowPriority == [][ByPriority]_trackerVars

(* A server counts pings without its key pending only while the key really *)
(* was acquired, so that it never replaces a key that is still on offer.   *)
CountMeansTaken ==
  \A s \in Servers : Registered(s) /\ unmatch_period_count[s] > 0 =>
    matchkey[s] \notin KeysOffered(s, tracker_conn[s])

(* Every request ends: in a session, in giving up, or with its client.  A  *)
(* key acquired by a client that never comes delays others, and no more.   *)
RequestsEnd ==
  \A c \in Clients : clientState[c] = "queued" ~> clientState[c] # "queued"
=============================================================================
