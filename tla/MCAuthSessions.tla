--------------------------- MODULE MCAuthSessions ---------------------------
EXTENDS AuthSessions, TLC

(* Interchangeable ids.  Ids of rows are numbers, and are given in order:  *)
(* which one a new row has makes no difference, as no row is ever removed. *)
Ids == Permutations(Request) \cup Permutations(Password)

InOrder ==
    /\ \A u, v \in User : u < v /\ users[v] # Null => users[u] # Null
    /\ \A s, t \in Token : s < t /\ sessions[t] # Null => sessions[s] # Null

(* A behaviour goes into one of four things: failed logins, with at most   *)
(* one token; password changes and deactivation, with two; rotation, with  *)
(* three; and the registration of further accounts, before anyone logs in. *)
Without(operations) == \A r \in Request : call[r].op \notin operations

NoMisses ==
    /\ \A u \in User : users[u] # Null => users[u].attempts = 0
    /\ \A r \in Request : pc[r] # "recordFailure"

OneConcern ==
    /\ (\E s, t \in Token : s # t /\ sessions[s] # Null /\ sessions[t] # Null) => NoMisses
    /\ (\A t \in Token : sessions[t] # Null)
        => /\ Without({"changePassword"})
           /\ \A u \in User : users[u] # Null => users[u].active
    /\ (\E u, v \in User : u # v /\ users[u] # Null /\ users[v] # Null)
        => /\ \A t \in Token : sessions[t] = Null
           /\ NoMisses /\ Without(Operation \ {"register"})
=============================================================================
