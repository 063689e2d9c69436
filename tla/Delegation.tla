----------------------------- MODULE Delegation -----------------------------
(***************************************************************************)
(* agent_framework/consult.py and dispatch.py: agents that are run for a   *)
(* caller, each in a process of its own, and continue one session.  A call *)
(* reads the session, runs an agent loop, in which the agent may use the   *)
(* todo list (TodoStore) that all agents share, and saves the session with *)
(* its exchange.  The session file is written in place, without a lock.    *)
(*                                                                         *)
(* Prompts, tools and attachments are data.  dispatch_agent runs its loop  *)
(* with a provider of a pool of its own, and then asks time.isoformat,     *)
(* which does not exist, for the time to save: it raises, after its run.   *)
(***************************************************************************)
EXTENDS TodoStore, FiniteSetsExt

CONSTANTS Exchange,  \* the calls that are made, named for their goals
          Kept,      \* messages of a session that are kept (20)
          MaxTodo,   \* bound: calls of the todo tool, by all agents
          MaxDeaths  \* bound: processes that end in a call

ASSUME DelegationAssumption ==
    /\ Kept \in Nat \ {0} /\ Kept % 2 = 0
    /\ MaxItems \in Nat /\ MaxTodo \in Nat /\ MaxDeaths \in Nat

VARIABLES
    file,    \* the session's file
    pc,      \* where each agent's call is
    goal,    \* what it was called for
    history, \* the local variable
    begun,   \* exchanges
    told,    \* the exchanges whose consult returned, in that order
    crossed, \* two calls on the session have overlapped
    hurt,    \* a process ended with the session file emptied
    todos, deaths

sessionVars == <<file, pc, goal, history, begun, told, crossed, hurt>>
vars == <<todoVars, sessionVars, todos, deaths>>

NoSession == [kind |-> "absent", history |-> <<>>]
EmptySession == [kind |-> "empty", history |-> <<>>]
Unreadable == [kind |-> "garbled", history |-> <<>>]
Saved(h) == [kind |-> "saved", history |-> h]

Messages(x) == <<[role |-> "User", of |-> x], [role |-> "Agent", of |-> x]>>

\* Mutant: the first messages, not the last.
FirstKept(h) == SubSeq(h, 1, IF Len(h) <= Kept THEN Len(h) ELSE Kept)
\* Mutant: one message less than that.
KeptLess(h) == IF Len(h) <= Kept THEN h ELSE SubSeq(h, Len(h) - Kept + 2, Len(h))
LastKept(h) == IF Len(h) <= Kept THEN h ELSE SubSeq(h, Len(h) - Kept + 1, Len(h))
-----------------------------------------------------------------------------
Init ==
    /\ TodoInit
    /\ file = NoSession /\ pc = [a \in Agent |-> "idle"]
    /\ goal = [a \in Agent |-> "none"] /\ history = [a \in Agent |-> <<>>]
    /\ begun = {} /\ told = <<>> /\ crossed = FALSE /\ hurt = FALSE
    /\ todos = 0 /\ deaths = 0

\* consult() and dispatch_agent() up to the loop: load_session, and setting up
\* tools and provider.  Either may raise, the first when the file does not parse.
Call(a, x, how) ==
    /\ pc[a] = "idle" /\ x \notin begun
    /\ begun' = begun \cup {x}
    /\ crossed' = (crossed \/ \E b \in Agent : pc[b] # "idle")
    /\ \/ /\ file.kind \in {"absent", "saved"}
          /\ pc' = [pc EXCEPT ![a] = how]
          /\ goal' = [goal EXCEPT ![a] = x]
          /\ history' = [history EXCEPT ![a] = file.history]
       \/ UNCHANGED <<pc, goal, history>>
    /\ UNCHANGED <<todoVars, file, told, hurt, todos, deaths>>

Running(a) == pc[a] \in {"consult", "dispatch"}

\* The agent loop uses the todo list.
UseTodo(a) ==
    /\ Running(a)
    /\ \/ TodoStep(a) /\ UNCHANGED todos
       \/ todos < MaxTodo /\ TodoCall(a) /\ todos' = todos + 1
    /\ UNCHANGED <<sessionVars, deaths>>

\* The loop returns, or raises, which becomes its output.
LoopEnds(a) ==
    /\ pc[a] = "consult" /\ todo[a] \in {"start", "idle"}
    /\ history' = [history EXCEPT ![a] = @ \o Messages(goal[a])]
    /\ pc' = [pc EXCEPT ![a] = "open"]
    /\ UNCHANGED <<todoVars, file, goal, begun, told, crossed, hurt, todos, deaths>>

Back(a) ==
    /\ pc' = [pc EXCEPT ![a] = "idle"]
    /\ goal' = [goal EXCEPT ![a] = "none"]
    /\ history' = [history EXCEPT ![a] = <<>>]

\* dispatch_agent: the slot is released, the exchange added, and the call raises.
DispatchRaises(a) ==
    /\ pc[a] = "dispatch" /\ todo[a] \in {"start", "idle"}
    /\ Back(a)
    /\ UNCHANGED <<todoVars, file, begun, told, crossed, hurt, todos, deaths>>

\* save_session: open(file, "w") ...
OpenSession(a) ==
    /\ pc[a] = "open"
    /\ file' = EmptySession
    /\ pc' = [pc EXCEPT ![a] = "write"]
    /\ UNCHANGED <<todoVars, goal, history, begun, told, crossed, hurt, todos, deaths>>

\* ... and json.dump, perhaps mixed with what another call writes; then
\* consult() returns.
WriteSession(a) ==
    /\ pc[a] = "write"
    /\ LET shared == file # EmptySession \/ \E b \in Agent \ {a} : pc[b] = "write"
       IN file' \in {Saved(LastKept(history[a]))} \cup (IF shared THEN {Unreadable} ELSE {})
    /\ told' = Append(told, goal[a])
    /\ Back(a)
    /\ UNCHANGED <<todoVars, begun, crossed, hurt, todos, deaths>>

\* The agent's process ends; the next call is made by another one.
Dies(a) ==
    /\ pc[a] # "idle" /\ deaths < MaxDeaths
    /\ deaths' = deaths + 1
    /\ hurt' = (hurt \/ pc[a] = "write")
    /\ Back(a)
    /\ TodoDies(a)
    /\ UNCHANGED <<file, begun, told, crossed, todos>>

Next == \E a \in Agent :
    \/ \E x \in Exchange, how \in {"consult", "dispatch"} : Call(a, x, how)
    \/ UseTodo(a) \/ LoopEnds(a) \/ DispatchRaises(a)
    \/ OpenSession(a) \/ WriteSession(a) \/ Dies(a)

Spec == Init /\ [][Next]_vars
-----------------------------------------------------------------------------
TypeOK ==
    /\ TodoTypeOK
    /\ file.kind \in {"absent", "empty", "garbled", "saved"}
    /\ pc \in [Agent -> {"idle", "consult", "dispatch", "open", "write"}]
    /\ \A a \in Agent : pc[a] = "idle" => todo[a] \in {"start", "idle"}
    /\ ToSet(told) \subseteq begun /\ begun \subseteq Exchange
    /\ Len(file.history) <= Kept

\* Whatever calls cross each other, die or fail: a session that can be read
\* holds whole exchanges of calls that were completed, each of them once, and
\* in the order in which they were told.
WholeExchangesInOrder ==
    LET h == file.history
        At(x, role) == {k \in DOMAIN h : h[k] = [role |-> role, of |-> x]}
    IN  /\ \A x \in Exchange :
              /\ Cardinality(At(x, "User")) <= 1
              /\ At(x, "Agent") = {k + 1 : k \in At(x, "User")}
              /\ At(x, "User") # {} => x \in ToSet(told)
        /\ \A j, k \in DOMAIN h : j < k =>
              \E m, n \in DOMAIN told : m <= n /\ told[m] = h[j].of /\ told[n] = h[k].of

\* "Session ID for multi-turn conversations": as long as calls on the session
\* did not overlap and none died while it saved, the session holds the last
\* messages of all the consults that returned, none of them missing.
SessionRemembers ==
    (~crossed /\ ~hurt /\ \A a \in Agent : pc[a] # "write") =>
        LET all == [k \in 1..2 * Len(told) |->
                       Messages(told[(k + 1) \div 2])[IF k % 2 = 1 THEN 1 ELSE 2]]
        IN  /\ file.kind = (IF told = <<>> THEN "absent" ELSE "saved")
            /\ IsSuffix(file.history, all)
            /\ Len(file.history) = Min({Len(all), Kept})
=============================================================================
