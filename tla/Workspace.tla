----------------------------- MODULE Workspace -----------------------------
(***************************************************************************)
(* agent_framework/docker_sandbox.py and the tools of builtins.py that use *)
(* it (execute_python, read_file, write_file, patch_file).  Every step of  *)
(* a tool runs in a container of its own, but all containers share one     *)
(* workspace, and execute_python keeps its script there under one name.    *)
(* The calls of a batch run at once.  A call that times out kills only the *)
(* docker client: its container goes on without it.                        *)
(*                                                                         *)
(* One file stands for those the file tools name.  A text is the set of    *)
(* calls that have put something in it: a write replaces it, a patch adds  *)
(* to what it read.  Without a sandbox the file tools take the same steps  *)
(* in the process itself and cannot time out.                              *)
(***************************************************************************)
EXTENDS Naturals, FiniteSets

CONSTANTS MaxCalls,    \* bound: calls, known by their number
          MaxParallel, \* workers of the tool pool
          MaxFaults    \* bound: calls that time out, containers that fail

ASSUME WorkspaceAssumption ==
    MaxCalls \in Nat /\ MaxParallel \in Nat \ {0} /\ MaxFaults \in Nat

Call == 1..MaxCalls
Tool == {"execute_python", "read_file", "write_file", "patch_file"}

VARIABLES
    tool,   \* what each call calls
    client, \* where its caller is
    box,    \* where its container is
    has,    \* the code or text the container holds
    script, \* whose code is in the script, 0 when empty
    file,   \* the text of the file
    found,  \* the text that was there when the call began
    met,    \* the calls that were under way, or whose containers were, since then
    faults

workspaceVars == <<tool, client, box, has, script, file, found, met, faults>>

Mixed == MaxCalls + 1   \* a script or text two containers wrote at once
Mark == 0..Mixed

\* sh -c "cat > script; python script", "cat file", "mkdir -p; cat > file"
FirstStep(t) ==
    CASE t = "execute_python" -> "empty script"
      [] t = "write_file" -> "empty file"
      [] t \in {"read_file", "patch_file"} -> "cat"

TypeOK ==
    /\ tool \in [Call -> Tool \cup {"none"}]
    /\ client \in [Call -> {"new", "waits", "returned", "raised"}]
    /\ box \in [Call -> {"none", "empty script", "put script", "python", "cat", "patch",
                         "empty file", "put file", "exits"}]
    /\ has \in [Call -> SUBSET Mark] /\ script \in Mark
    /\ file \in SUBSET Mark /\ found \in [Call -> SUBSET Mark]
    /\ met \in [Call -> SUBSET Call] /\ faults \in 0..MaxFaults

Live(n) == box[n] # "none"
UnderWay == {n \in Call : client[n] = "waits" \/ Live(n)}
-----------------------------------------------------------------------------
WorkspaceInit ==
    /\ tool = [n \in Call |-> "none"] /\ client = [n \in Call |-> "new"]
    /\ box = [n \in Call |-> "none"] /\ has = [n \in Call |-> {}]
    /\ script = 0 /\ file = {} /\ found = [n \in Call |-> {}]
    /\ met = [n \in Call |-> {}] /\ faults = 0

\* _run: docker run, and wait.
Start(n, t) ==
    /\ client[n] = "new" /\ \A m \in 1..n - 1 : client[m] # "new"
    /\ Cardinality({m \in Call : client[m] = "waits"}) < MaxParallel
    /\ tool' = [tool EXCEPT ![n] = t]
    /\ client' = [client EXCEPT ![n] = "waits"]
    /\ box' = [box EXCEPT ![n] = FirstStep(t)]
    /\ has' = [has EXCEPT ![n] = IF t = "write_file" THEN {n} ELSE {}]
    /\ found' = [found EXCEPT ![n] = file]
    /\ met' = [m \in Call |-> IF m = n THEN UnderWay
                              ELSE IF m \in UnderWay THEN met[m] \cup {n} ELSE met[m]]
    /\ UNCHANGED <<script, file, faults>>

Goes(n, step) == box' = [box EXCEPT ![n] = step]
Ends(n) ==
    /\ Goes(n, "none")
    /\ has' = [has EXCEPT ![n] = {}] /\ found' = [found EXCEPT ![n] = {}]
    /\ met' = [met EXCEPT ![n] = {}]
Others(n, step) == {m \in Call \ {n} : box[m] = step}

\* Mutant: a script that is there is not written again.
EmptyMissingScript(n) ==
    /\ box[n] = "empty script"
    /\ Goes(n, IF script = 0 THEN "put script" ELSE "python")
    /\ UNCHANGED <<tool, client, has, script, file, found, met, faults>>

\* The shell empties the script, cat fills it from the here-document ...
EmptyScript(n) ==
    /\ box[n] = "empty script"
    /\ script' = 0 /\ Goes(n, "put script")
    /\ UNCHANGED <<tool, client, has, file, found, met, faults>>

PutScript(n) ==
    /\ box[n] = "put script"
    /\ \/ script' = n
       \/ script # 0 /\ script' = Mixed
       \/ Others(n, "put script") # {} /\ script' = Mixed
    /\ Goes(n, "python")
    /\ UNCHANGED <<tool, client, has, file, found, met, faults>>

\* ... and python reads what is there by then.
Python(n) ==
    /\ box[n] = "python"
    /\ has' = [has EXCEPT ![n] = {script}] /\ Goes(n, "exits")
    /\ UNCHANGED <<tool, client, script, file, found, met, faults>>

Cat(n) ==
    /\ box[n] = "cat"
    /\ has' = [has EXCEPT ![n] = file]
    /\ Goes(n, IF tool[n] = "patch_file" THEN "patch" ELSE "exits")
    /\ UNCHANGED <<tool, client, script, file, found, met, faults>>

\* _patch_file_executor goes on with a container of write_file's, unless it has
\* raised.  There may be nothing to replace, which it does not say.
Patch(n) ==
    /\ box[n] = "patch"
    /\ \/ /\ client[n] = "waits" /\ Goes(n, "empty file")
          /\ has' \in {has, [has EXCEPT ![n] = @ \cup {n}]}
          /\ UNCHANGED <<found, met>>
       \/ client[n] = "raised" /\ Ends(n)
    /\ UNCHANGED <<tool, client, script, file, faults>>

\* Mutant: the new text is put after the old one.
AppendToFile(n) ==
    /\ box[n] = "empty file"
    /\ Goes(n, "put file")
    /\ UNCHANGED <<tool, client, has, script, file, found, met, faults>>

EmptyFile(n) ==
    /\ box[n] = "empty file"
    /\ file' = {} /\ Goes(n, "put file")
    /\ UNCHANGED <<tool, client, has, script, found, met, faults>>

\* The text comes through the client: when that has been killed, a part of it.
PutFile(n) ==
    /\ box[n] = "put file"
    /\ \/ file' = has[n]
       \/ (file # {} \/ Others(n, "put file") # {}) /\ file' = {Mixed}
       \/ client[n] = "raised" /\ file' \in {file, {Mixed}}
    /\ Goes(n, "exits")
    /\ UNCHANGED <<tool, client, has, script, found, met, faults>>

\* A script that is two scripts mixed ends with an error, which is raised.
Exits(n) ==
    /\ box[n] = "exits" /\ Ends(n)
    /\ client' = [client EXCEPT ![n] =
          IF @ # "waits" THEN @
          ELSE IF tool[n] = "execute_python" /\ has[n] = {Mixed} THEN "raised" ELSE "returned"]
    /\ UNCHANGED <<tool, script, file, faults>>

\* subprocess.run kills the docker client and raises: SandboxError.
TimesOut(n) ==
    /\ client[n] = "waits" /\ faults < MaxFaults
    /\ faults' = faults + 1
    /\ client' = [client EXCEPT ![n] = "raised"]
    /\ UNCHANGED <<tool, box, has, script, file, found, met>>

\* The container does not come up, or its command fails: SandboxError as well.
Fails(n) ==
    /\ box[n] \in {"empty script", "cat", "empty file"} /\ client[n] = "waits" /\ faults < MaxFaults
    /\ faults' = faults + 1
    /\ Ends(n)
    /\ client' = [client EXCEPT ![n] = "raised"]
    /\ UNCHANGED <<tool, script, file>>

Step(n) ==
    \/ EmptyScript(n) \/ PutScript(n) \/ Python(n) \/ Cat(n) \/ Patch(n) \/ EmptyFile(n) \/ PutFile(n)
    \/ Exits(n)

WorkspaceNext == \E n \in Call :
    \/ \E t \in Tool : Start(n, t)
    \/ Step(n) \/ TimesOut(n) \/ Fails(n)

WorkspaceSpec == WorkspaceInit /\ [][WorkspaceNext]_workspaceVars
-----------------------------------------------------------------------------
\* "Execute Python code in an isolated environment": code that ran is that of the
\* call itself or, the script being shared, of one that was under way at the same
\* time, its container left behind by a timeout included; never an older one.
RunsCodeOfTheMoment ==
    \A n \in Call : tool[n] = "execute_python" /\ box[n] = "exits" =>
        \A m \in has[n] \cap Call : m = n \/ (m \in met[n] /\ tool[m] = "execute_python")

\* A call that no other call or container has met does what it says, whatever
\* calls before it left behind, and nothing else: it runs its own code, or reads,
\* replaces or adds to the text that was there.
AloneDoesAsItSays ==
    \A n \in Call : box[n] = "exits" /\ client[n] = "waits" /\ met[n] = {} =>
        CASE tool[n] = "execute_python" -> has[n] = {n} /\ file = found[n]
          [] tool[n] = "read_file" -> has[n] = found[n] /\ file = found[n]
          [] tool[n] = "write_file" -> file = {n}
          [] tool[n] = "patch_file" -> file \in {found[n], found[n] \cup {n}}
=============================================================================
