---------------------------- MODULE Reconnection ----------------------------
(***************************************************************************)
(* The WebSocket reconnection tracker,                                     *)
(* common/websocket/reconnection-handler.ts.  The map of timers knows the  *)
(* last timer of a socket only; one it replaced still fires.  A delay is   *)
(* only what orders the timers, so any pending one may be next.            *)
(***************************************************************************)
EXTENDS Integers, Sequences, FiniteSets

CONSTANTS
    Sockets, maxAttempts,
    MaxTimers, MaxReconnects     \* bounds

VARIABLES
    state,            \* socket -> ConnectionState; "fired" is a history of its timers
    reconnectTimers,  \* socket -> the number of its last timer, pending or not
    timers,           \* the socket of every timer ever started
    pending           \* the numbers of those that will fire

vars == <<state, reconnectTimers, timers, pending>>

Fresh == [isConnected |-> FALSE, disconnected |-> FALSE,
          reconnectAttempts |-> 0, totalReconnects |-> 0, fired |-> 0]

Init == state = <<>> /\ reconnectTimers = <<>> /\ timers = <<>> /\ pending = {}

-----------------------------------------------------------------------------
Put(f, k, v) == [x \in DOMAIN f \cup {k} |-> IF x = k THEN v ELSE f[x]]
Drop(f, ks) == [x \in DOMAIN f \ ks |-> f[x]]

\* Every method, a query too, makes a state for a socket that has none.
getState(s) == IF s \in DOMAIN state THEN state[s] ELSE Fresh

ClearTimers(ss) ==
    /\ pending' = pending \ {reconnectTimers[s] : s \in ss \cap DOMAIN reconnectTimers}
    /\ reconnectTimers' = Drop(reconnectTimers, ss)

\* Mutant: the attempts are not forgotten.
Kept(st) ==
    [st EXCEPT !.isConnected = TRUE,
        !.totalReconnects = IF st.reconnectAttempts > 0 THEN @ + 1 ELSE @]
Connected(st) ==
    [st EXCEPT !.isConnected = TRUE, !.reconnectAttempts = 0,
        !.totalReconnects = IF st.reconnectAttempts > 0 THEN @ + 1 ELSE @]
handleConnect(s) ==
    /\ getState(s).totalReconnects < MaxReconnects
    /\ state' = Put(state, s, Connected(getState(s)))
    /\ ClearTimers({s}) /\ UNCHANGED timers

scheduleReconnect(s, st) ==
    IF st.reconnectAttempts >= maxAttempts
    THEN UNCHANGED <<reconnectTimers, timers, pending>>
    ELSE /\ Len(timers) < MaxTimers
         /\ timers' = Append(timers, s)
         /\ pending' = pending \cup {Len(timers) + 1}
         /\ reconnectTimers' = Put(reconnectTimers, s, Len(timers) + 1)

\* Three reasons are final; for the others a timer is started.
handleDisconnect(s, final) ==
    LET st == [getState(s) EXCEPT !.isConnected = FALSE, !.disconnected = TRUE] IN
    /\ state' = Put(state, s, st)
    /\ IF final THEN UNCHANGED <<reconnectTimers, timers, pending>> ELSE scheduleReconnect(s, st)

forceReconnect(s) ==
    LET st == [getState(s) EXCEPT !.reconnectAttempts = 0] IN
    state' = Put(state, s, st) /\ scheduleReconnect(s, st)

\* The timer fires; the client reconnects by itself or does not.
attemptReconnect(n) ==
    /\ n \in pending /\ pending' = pending \ {n}
    /\ state' = Put(state, timers[n], [getState(timers[n]) EXCEPT !.reconnectAttempts = @ + 1,
                                                                  !.fired = @ + 1])
    /\ UNCHANGED <<reconnectTimers, timers>>

\* getConnectionState, isHealthy and getUptime.
Query(s) ==
    /\ state' = Put(state, s, getState(s))
    /\ UNCHANGED <<reconnectTimers, timers, pending>>

Forget(ss) == state' = Drop(state, ss) /\ ClearTimers(ss) /\ UNCHANGED timers
reset(s) == Forget({s})
\* Those that are old enough, of the sockets that disconnected.
cleanup ==
    \E ss \in SUBSET {s \in DOMAIN state : ~state[s].isConnected /\ state[s].disconnected} :
        Forget(ss)

Next ==
    \/ \E s \in Sockets :
          \/ handleConnect(s) \/ forceReconnect(s) \/ Query(s) \/ reset(s)
          \/ \E final \in BOOLEAN : handleDisconnect(s, final)
    \/ \E n \in 1 .. MaxTimers : attemptReconnect(n)
    \/ cleanup

Spec == Init /\ [][Next]_vars

-----------------------------------------------------------------------------
TypeOK ==
    /\ DOMAIN state \subseteq Sockets
    /\ \A s \in DOMAIN state :
          state[s] \in [isConnected : BOOLEAN, disconnected : BOOLEAN,
                        reconnectAttempts : 0 .. MaxTimers,
                        totalReconnects : 0 .. MaxReconnects, fired : 0 .. MaxTimers]
    /\ timers \in Seq(Sockets) /\ pending \subseteq DOMAIN timers
    /\ DOMAIN reconnectTimers \subseteq Sockets

\* Each reconnection a socket is counted for, and each attempt still counted, stands
\* for a timer of its own that fired since its state was made, whatever timers were
\* replaced, fired late or were cleared meanwhile.
ReconnectsHadAttempts ==
    \A s \in DOMAIN state :
        state[s].totalReconnects + state[s].reconnectAttempts <= state[s].fired
=============================================================================
