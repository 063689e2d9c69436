----------------------------- MODULE ToolLoader -----------------------------
(***************************************************************************)
(* agent_framework/tool_loader.py: which tools a configuration loads.      *)
(*                                                                         *)
(* A configuration is a sequence of entries, a key and a specification     *)
(* each.  What a specification makes is a constant: a tool with its name,  *)
(* whether it is host-only and whether it requires a sandbox, or nothing   *)
(* (an unknown factory, a failing import, a factory that returns something *)
(* else).                                                                  *)
(***************************************************************************)
EXTENDS Naturals, Sequences, SequencesExt

CONSTANT Makes  \* a function from the specifications that load to their tools

ASSUME LoaderAssumption == "" \notin DOMAIN Makes

Keys(config) == {e.key : e \in ToSet(config)}
Named(tools) == {t.name : t \in tools}
\* A dict has each key once.
IsMapping(config) ==
    /\ config \in Seq(ToSet(config))
    /\ \A i, j \in DOMAIN config : config[i].key = config[j].key => i = j

default_file_tools == <<"read_file", "write_file", "patch_file">>
default_search_tools == <<"code_search", "find_files", "web_search", "sec_search", "sec_fetch">>
default_exec_tools == <<"execute_terminal", "execute_python">>
default_git_tools == <<"git_status", "git_diff", "git_log">>
default_research_tools == <<"research_execute">>
\* A default's specification has the name of its key here.
default_all_tools ==
    LET keys == default_file_tools \o default_search_tools \o default_exec_tools
                \o default_git_tools \o default_research_tools \o <<"todo">>
    IN  [i \in DOMAIN keys |-> [key |-> keys[i], spec |-> keys[i]]]

\* A place of a configuration with no entry in it: it makes nothing.
Absent == [key |-> "", spec |-> ""]

\* _load_tool_impl()
Loads(e) == e.spec \in DOMAIN Makes
Impl(e) == Makes[e.spec]

NothingYet == [raised |-> FALSE, tools |-> {}]
Unfit(tool, sandbox) == IF sandbox THEN tool.host ELSE tool.needs

\* Mutant: the last tool of a name wins.
AddLast(loaded, e, sandbox, asked) ==
    IF loaded.raised \/ ~Loads(e) THEN loaded
    ELSE IF Unfit(Impl(e), sandbox) THEN [loaded EXCEPT !.raised = e.key \in asked]
    ELSE [loaded EXCEPT !.tools = {t \in @ : t.name # Impl(e).name} \cup {Impl(e)}]

\* One turn of the loop: a tool that does not fit is passed over, unless it was
\* asked for; a second tool of a name is refused by register(), which is logged.
Add(loaded, e, sandbox, asked) ==
    IF loaded.raised \/ ~Loads(e) THEN loaded
    ELSE IF Unfit(Impl(e), sandbox) THEN [loaded EXCEPT !.raised = e.key \in asked]
    ELSE IF Impl(e).name \in Named(loaded.tools) THEN loaded
    ELSE [loaded EXCEPT !.tools = @ \cup {Impl(e)}]

\* `asked` are the keys that raise, host-only ones with a sandbox and those that
\* need one without.
load_tools_from_config(config, sandbox, asked) ==
    LET after[i \in 0..Len(config)] ==
          IF i = 0 THEN NothingYet ELSE Add(after[i - 1], config[i], sandbox, asked)
    IN  after[Len(config)]

\* The keys of the defaults that are left when names are asked for.
Selected(ask) == {key \in Keys(default_all_tools) : ask.all \/ key \in ask.names}

\* dict.update(): an override takes the place of the default, a new key comes last.
\* A name that is no default is dropped without a word.
Config(ask) ==
    LET For(key) == {o \in ToSet(ask.overrides) : o.key = key}
        Entry(e) == IF e.key \notin Selected(ask) THEN Absent
                    ELSE IF For(e.key) = {} THEN e ELSE CHOOSE o \in For(e.key) : TRUE
        New(o) == IF o.key \in Selected(ask) THEN Absent ELSE o
    IN  [i \in DOMAIN default_all_tools |-> Entry(default_all_tools[i])]
        \o [i \in DOMAIN ask.overrides |-> New(ask.overrides[i])]

\* reject_host_only_names = {} has a selection filtered instead.
Asked(ask) ==
    IF ask.lenient THEN {} ELSE (IF ask.all THEN {} ELSE ask.names) \cup Keys(ask.overrides)

\* ToolLoader.load()
Load(ask) == load_tools_from_config(Config(ask), ask.sandbox, Asked(ask))
-----------------------------------------------------------------------------
\* What is wanted, key by key: the override if there is one, else the default
\* if it is selected.
Wanted(ask) ==
    ToSet(ask.overrides)
    \cup {e \in ToSet(default_all_tools) :
             (ask.all \/ e.key \in ask.names) /\ e.key \notin Keys(ask.overrides)}

\* A loaded registry, or an exception, against what is wanted: of two tools of
\* one name the earlier key's is taken, and a selected default's key comes before
\* those that only the overrides have.
RightlyLoaded(ask, loaded) ==
    LET found == {e \in Wanted(ask) : Loads(e)}
        fit == {e \in found : ~Unfit(Impl(e), ask.sandbox)}
        explicit == IF ask.lenient THEN {} ELSE Keys(ask.overrides) \cup (IF ask.all THEN {} ELSE ask.names)
    IN  /\ loaded.raised <=> \E e \in found \ fit : e.key \in explicit
        /\ ~loaded.raised =>
              /\ loaded.tools \subseteq {Impl(e) : e \in fit}
              /\ Named(loaded.tools) = {Impl(e).name : e \in fit}
              /\ \A e \in fit :
                    /\ e.key \in Selected(ask)
                    /\ \A f \in fit \ {e} : Impl(f).name = Impl(e).name =>
                                               f.key \notin Selected(ask)
                    => Impl(e) \in loaded.tools
              /\ \A s, t \in loaded.tools : s.name = t.name => s = t
=============================================================================
