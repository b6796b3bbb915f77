------------------------------ MODULE Snapshots ------------------------------
(***************************************************************************)
(* What the connections of database.cpp are to offer to their threads: a    *)
(* query is answered once, from the table as it is committed at one moment  *)
(* of the call, however many steps fetch its rows and whatever is being     *)
(* written meanwhile.                                                       *)
(***************************************************************************)
CONSTANTS
    Connections,
    Versions      \* the values the committed table goes through

VARIABLES
    committed,    \* the version last committed
    call,         \* what each connection's query has got to
    answer        \* the versions its rows are from

vars == <<committed, call, answer>>

Init ==
    /\ committed \in Versions
    /\ call = [c \in Connections |-> "none"]
    /\ answer = [c \in Connections |-> {}]

Ask(c) ==
    /\ call[c] = "none"
    /\ call' = [call EXCEPT ![c] = "asked"]
    /\ answer' = [answer EXCEPT ![c] = {}]
    /\ UNCHANGED committed

Answer(c) ==
    /\ call[c] = "asked"
    /\ call' = [call EXCEPT ![c] = "answered"]
    /\ answer' = [answer EXCEPT ![c] = {committed}]
    /\ UNCHANGED committed

Return(c) ==
    /\ call[c] = "answered"
    /\ call' = [call EXCEPT ![c] = "none"]
    /\ UNCHANGED <<committed, answer>>

Commit ==
    /\ committed' \in Versions
    /\ UNCHANGED <<call, answer>>

Next == Commit \/ \E c \in Connections : Ask(c) \/ Answer(c) \/ Return(c)

Spec == Init /\ [][Next]_vars

\* Every query is answered and every call returns.
FairSpec ==
    Spec /\ \A c \in Connections : WF_vars(Answer(c)) /\ WF_vars(Return(c))

=============================================================================
