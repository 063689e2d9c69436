--------------------------- MODULE MCToolRegistry ---------------------------
\* A small instance of ToolRegistry for TLC: two loops on a view with two threads,
\* and a resolver that has the full registry, or comes to have the view.
EXTENDS ToolRegistry, TLC

CONSTANTS c1, c2, t1, t2, main, view

\* "cat" is no tool: an alias, at first of "read_file" and later perhaps of "find_files",
\* and close to "find_files" by its letters.
MCName == {"read_file", "find_files", "cat"}
MCSimilar == [n \in MCName |-> IF n = "cat" THEN {"find_files"} ELSE {n}]
MCAliases == [n \in MCName |-> IF n = "cat" THEN "read_file" ELSE NoName]
MCAlias == [n \in MCName |-> IF n = "cat" THEN {"read_file", "find_files"} ELSE {}]
MCUses == c1 :> view @@ c2 :> view
MCHome == t1 :> view @@ t2 :> view
MCSymmetry == Permutations({t1, t2}) \cup Permutations({c1, c2})

Call(name, arguments) == [name |-> name, arguments |-> arguments]
MCBatch == {<<Call("cat", "object"), Call("cat", "object")>>,
            <<Call("read_file", "null"), Call("cat", "object")>>,
            <<Call("read_file", "partial"), Call("read_file", "invalid")>>}

\* Files can be read everywhere, a list of them comes from the host, code wants
\* a sandbox; other defaults are left out, as if their imports failed.  The
\* overrides replace a default, bring a new key with a tool of a name that is
\* taken, or do not load.
Tool(name, host, needs) == [name |-> name, host |-> host, needs |-> needs]
MCMakes == "read_file" :> Tool("read_file", FALSE, FALSE)
           @@ "find_files" :> Tool("find_files", TRUE, FALSE)
           @@ "execute_python" :> Tool("execute_python", FALSE, TRUE)
           @@ "inside" :> Tool("find_files", FALSE, FALSE)
           @@ "outside" :> Tool("execute_python", TRUE, FALSE)
           @@ "shut in" :> Tool("find_files", FALSE, TRUE)
Entry(key, spec) == [key |-> key, spec |-> spec]
MCOverrides == {<<>>, <<Entry("find_files", "inside")>>,
                <<Entry("read_file", "no such thing"), Entry("mine", "outside")>>,
                <<Entry("mine", "inside"), Entry("yours", "shut in")>>,
                <<Entry("mine", "inside"), Entry("find_files", "find_files")>>}
MCAsk == [all : BOOLEAN, names : SUBSET {"read_file", "find_files", "execute_python", "unknown"},
          overrides : MCOverrides, sandbox : BOOLEAN, lenient : BOOLEAN]
=============================================================================
