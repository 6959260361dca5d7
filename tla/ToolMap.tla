------------------------------- MODULE ToolMap -------------------------------
(* What becomes of a tool the upstream calls (api/toolmap.go): it knows its  *)
(* own tools, and the client has declared others.  A call is given a name    *)
(* and arguments the client has, made into a command for its shell, or       *)
(* withheld.                                                                 *)
(*                                                                           *)
(* Names are lower case, as they are compared in, but for the keys of the    *)
(* table of aliases, which are looked up as spelled.  The value of an        *)
(* argument is the field it came in; a value that is empty or of another     *)
(* type than expected, the text of commands and the extra rules on agent     *)
(* types and question options are left out.                                  *)
EXTENDS Naturals, Sequences, FiniteSets, SequencesExt, Functions, TLC

CONSTANTS
  Calls,       \* names the upstream may call
  Declarable,  \* names a client may declare
  Fields,      \* sets of arguments a call may have
  Schemas,     \* sets of properties a declared tool may have; {}: no schema
  MaxDeclared  \* bound: tools of a client

ASSUME ToolMapAssumption ==
  /\ \A F \in Fields \cup Schemas : IsFiniteSet(F)
  /\ {} \in Schemas /\ MaxDeclared \in Nat

VARIABLES
  call,    \* name, args, and whether its pattern looks like names of files
  client,  \* tools declared: name -> properties
  answer   \* Pending, Withheld, or name and args of the call the client gets

toolVars == <<call, client, answer>>

(* builtinToolAliases and shellToolNames *)
ShellNames == <<"bash", "shell", "run_command", "execute_command", "run_terminal_command",
                "terminal", "powershell", "cmd", "execute">>
GrepNames == <<"grep", "ripgrep", "search_files">>
AgentNames == <<"agent", "task", "subagent", "run_subagent", "dispatch_agent", "delegate">>

Aliases ==
  [Shell |-> ShellNames, Grep |-> GrepNames, Search |-> GrepNames,
   Task |-> AgentNames, subagent |-> AgentNames,
   Read |-> <<"read", "read_file", "readfile", "view_file", "view">>,
   Edit |-> <<"edit", "edit_file", "apply_patch", "apply_diff", "str_replace_editor",
              "replace_in_file", "search_replace">>,
   Write |-> <<"write", "write_file", "write_to_file", "create_file", "writefile">>,
   Delete |-> <<"delete", "delete_file", "deletefile", "rm">>,
   Glob |-> <<"glob", "find_files", "list_files_glob">>,
   LS |-> <<"ls", "list_dir", "list_files", "list_directory", "listfiles">>,
   Fetch |-> <<"webfetch", "fetch", "web_fetch", "fetch_url">>,
   WebSearch |-> <<"websearch", "web_search", "search_web">>,
   AskQuestion |-> <<"askuserquestion", "ask_question", "ask", "ask_user">>]

Keys == DOMAIN Aliases
LowerKey ==
  [Shell |-> "shell", Grep |-> "grep", Search |-> "search", Task |-> "task",
   Read |-> "read", Edit |-> "edit", Write |-> "write", Delete |-> "delete",
   Glob |-> "glob", LS |-> "ls", Fetch |-> "fetch", WebSearch |-> "websearch",
   AskQuestion |-> "askquestion"]
Lower(n) == IF n \in DOMAIN LowerKey THEN LowerKey[n] ELSE n

(* The tools of a client without any are those of Claude Code.               *)
Registry ==
  [shell |-> "bash", bash |-> "bash", read |-> "read", edit |-> "edit", write |-> "write",
   fetch |-> "webfetch", webfetch |-> "webfetch", websearch |-> "websearch",
   task |-> "agent", subagent |-> "agent", agent |-> "agent",
   askquestion |-> "askuserquestion", askuserquestion |-> "askuserquestion",
   updatetodos |-> "todowrite", todowrite |-> "todowrite"]

(* neverForwardTool *)
SandboxOnly ==
  {"computeruse", "computer_use", "recordscreen", "record_screen", "generateimage",
   "generate_image", "sendtouser", "sendmessage", "sendfinalsummary", "communicateupdate",
   "truncated"}
-----------------------------------------------------------------------------
(* Arguments that are no JSON object go through every rewriting unchanged.   *)
Raw == [raw |-> "raw"]

(* renameField *)
Renamed(a, pair) ==
  LET from == pair[1]
      to   == pair[2]
      rest == Restrict(a, DOMAIN a \ {from})
  IN IF from \in DOMAIN a /\ to \notin DOMAIN a THEN rest @@ (to :> a[from]) ELSE
     IF to \in DOMAIN a THEN rest ELSE a

(* convert*Args: the names each is for, what it renames, in order, what it   *)
(* keeps, and what it makes up if it is not there.                           *)
Rewriting(names, renames, keeps, makes) ==
  [names |-> names, renames |-> renames, keeps |-> keeps, makes |-> makes]

Rewritings ==
  {Rewriting(Range(ShellNames), <<<<"timeout_ms", "timeout">>>>,
             {"command", "timeout", "description", "run_in_background"}, {}),
   Rewriting(Range(Aliases["Read"]), <<<<"path", "file_path">>>>,
             {"file_path", "offset", "limit", "pages"}, {}),
   Rewriting(Range(Aliases["Edit"]),
             <<<<"path", "file_path">>, <<"oldString", "old_string">>, <<"old_str", "old_string">>,
               <<"newString", "new_string">>, <<"new_str", "new_string">>>>,
             {"file_path", "old_string", "new_string", "replace_all"}, {}),
   Rewriting(Range(Aliases["Write"]), <<<<"path", "file_path">>, <<"contents", "content">>>>,
             {"file_path", "content"}, {}),
   Rewriting(Range(GrepNames), <<<<"query", "pattern">>>>,
             {"pattern", "path", "glob", "output_mode", "-B", "-A", "-C", "context", "-n", "-i",
              "type", "head_limit", "offset", "multiline"}, {}),
   Rewriting(Range(Aliases["Glob"]), <<<<"glob", "pattern">>>>, {"pattern", "path"}, {}),
   Rewriting(Range(Aliases["WebSearch"]), <<<<"search_term", "query">>>>,
             {"query", "allowed_domains", "blocked_domains"}, {}),
   Rewriting(Range(Aliases["Fetch"]), <<>>, {"url", "prompt"}, {"prompt"}),
   Rewriting({"agent", "task", "subagent", "delegate"},
             <<<<"task", "prompt">>, <<"instruction", "prompt">>, <<"type", "subagent_type">>,
               <<"agent_type", "subagent_type">>>>,
             {"prompt", "description", "subagent_type", "model", "name", "run_in_background"},
             {"prompt", "description"}),
   Rewriting(Range(Aliases["AskQuestion"]) \cup {"askquestion"},
             <<<<"question", "questions">>, <<"title", "questions">>, <<"options", "questions">>>>,
             {"questions", "answers", "annotations", "metadata"}, {"questions"}),
   Rewriting({"todowrite"}, <<>>, {"todos"}, {})}

(* convertForTarget *)
Converted(target, a) ==
  LET R == {r \in Rewritings : target \in r.names} IN
  IF R = {} \/ a = Raw THEN a
  ELSE LET r == CHOOSE x \in R : TRUE
           b == FoldLeft(Renamed, a, r.renames)
           c == Restrict(b, r.keeps \cap DOMAIN b)
       IN c @@ [f \in r.makes |-> "made"]

(* argSynonymGroups *)
Synonyms ==
  {<<"file_path", "path", "filePath", "target_file", "file", "filename">>, <<"command", "cmd">>,
   <<"timeout", "timeout_ms", "timeoutMs">>, <<"pattern", "regex", "search_pattern">>,
   <<"url", "uri", "href">>, <<"prompt", "instruction">>, <<"description", "desc">>,
   <<"old_string", "oldString", "old_str">>, <<"new_string", "newString", "new_str">>,
   <<"query", "search_term", "q">>, <<"content", "contents">>}

SynonymsOf(f) == UNION {Range(g) : g \in {h \in Synonyms : f \in Range(h)}} \ {f}
InPlaceOf(p, a) ==
  LET g == CHOOSE h \in Synonyms : p \in Range(h) IN
  SelectSeq(g, LAMBDA s : s # p /\ s \in DOMAIN a)[1]

(* projectArgsToSchema: a property has the argument of its name, or else the *)
(* first of its synonyms.  Defaults of required properties are left out.     *)
Projected(a, schema) ==
  IF schema = {} \/ a = Raw THEN a
  ELSE [p \in {q \in schema : q \in DOMAIN a \/ SynonymsOf(q) \cap DOMAIN a # {}} |->
          IF p \in DOMAIN a THEN a[p] ELSE a[InPlaceOf(p, a)]]
-----------------------------------------------------------------------------
Pending == [what |-> "pending"]
Withheld == [what |-> "withheld"]
Forwarded(name, a) == [what |-> "forwarded", name |-> name, args |-> a]

SchemaOf(name) == IF name \in DOMAIN client THEN client[name] ELSE {}

(* pick: the first of the names that is declared, if there is one.           *)
Declared(names) ==
  LET found == {i \in DOMAIN names : names[i] \in DOMAIN client}
  IN IF found = {} THEN "" ELSE names[Min(found)]

ShellName ==
  IF DOMAIN client = {} THEN "bash" ELSE Declared(ShellNames)

(* resolveDeclared, with lookupAliases *)
Resolved(name) ==
  LET keys    == {k \in Keys : Lower(k) = Lower(name)}
      aliases == IF keys = {} THEN <<>> ELSE Aliases[CHOOSE k \in keys : TRUE]
  IN Declared(Append(aliases, Lower(name)))

(* canonicalBuiltinName goes through the table in no particular order.       *)
Canonical(name) ==
  IF name \in Keys THEN {name}
  ELSE LET of == {k \in Keys : Lower(k) = name \/ name \in Range(Aliases[k])} IN
       IF of = {} THEN {name} ELSE of

(* emitConverted, emitDeclared *)
Convert(target) == Forwarded(target, Projected(Converted(target, call.args), SchemaOf(target)))
Declare(target) ==
  IF target = Lower(call.name) THEN Forwarded(target, Projected(call.args, SchemaOf(target)))
  ELSE Convert(target)

(* grep, find, ls and rm for the shell, of calls that say what for.          *)
Given(fields) == call.args # Raw /\ fields \cap DOMAIN call.args # {}
CanGlob == Given({"pattern", "glob"})
CanGrep == Given({"pattern", "query"}) /\ (call.globbed => CanGlob)
CanDelete == Given({"path", "file_path"}) /\ ~call.rooted

Command == [f \in {"command", "description", "timeout"} |-> "made"]
ForShell(can) ==
  IF ShellName # "" /\ can THEN Forwarded(ShellName, Projected(Command, SchemaOf(ShellName)))
  ELSE Withheld

(* mutant of IsGrep: a search is not searched for like a grep *)
IsGrepOnly(lower) == lower = "grep"

IsGrep(lower) == lower \in {"grep", "search"}
GlobInstead(lower) == IsGrep(lower) /\ call.globbed /\ Given({"pattern", "query"})

Synthesized(lower) ==
  CASE IsGrep(lower) -> ForShell(CanGrep)
    [] lower = "glob" -> ForShell(CanGlob)
    [] lower = "ls" -> ForShell(TRUE)
    [] lower = "delete" -> ForShell(CanDelete)
    [] DOMAIN client = {} /\ lower \in DOMAIN Registry -> Convert(Registry[lower])
    [] OTHER -> Withheld

(* mapCursorToolCall, once canonicalBuiltinName has answered *)
MappedAs(canon) ==
  LET lower  == Lower(canon)
      target == Resolved(call.name)
  IN IF canon # call.name /\ Resolved(canon) # "" THEN Declare(Resolved(canon))
     ELSE IF GlobInstead(lower) /\ Resolved("Glob") # "" THEN Convert(Resolved("Glob"))
     ELSE IF GlobInstead(lower) /\ ForShell(CanGlob) # Withheld THEN ForShell(CanGlob)
     ELSE IF target = "search" THEN ForShell(CanGrep)
     ELSE IF target # "" THEN Declare(target)
     ELSE Synthesized(lower)

(* mutant of Gated: what the client has not declared goes to it all the same *)
GatedOpen(canon) ==
  IF MappedAs(canon) = Withheld THEN Forwarded(Lower(call.name), call.args) ELSE MappedAs(canon)

(* gateUpstreamToolCall: a client without tools gets what cannot be mapped   *)
(* as it is.                                                                 *)
Gated(canon) ==
  IF Lower(call.name) \in SandboxOnly THEN Withheld
  ELSE IF MappedAs(canon) = Withheld /\ DOMAIN client = {}
       THEN Forwarded(Lower(call.name), call.args)
       ELSE MappedAs(canon)

ToolsInit ==
  /\ \E name \in Calls, F \in Fields, globbed, rooted, parses \in BOOLEAN :
       /\ globbed => F \cap {"pattern", "query"} # {}
       /\ rooted => "path" \in F
       /\ ~parses => F = {}
       /\ call = [name |-> name, globbed |-> globbed, rooted |-> rooted,
                  args |-> IF parses THEN [f \in F |-> f] ELSE Raw]
  /\ \E D \in SUBSET Declarable :
       Cardinality(D) <= MaxDeclared /\ client \in [D -> Schemas]
  /\ answer = Pending

Translate ==
  /\ answer = Pending
  /\ \E canon \in Canonical(call.name) : answer' = Gated(canon)
  /\ UNCHANGED <<call, client>>

ToolsSpec == ToolsInit /\ [][Translate]_toolVars
-----------------------------------------------------------------------------
Answered == answer # Pending
Sent == answer.what = "forwarded"

(* A client that has declared tools is only sent calls of those, and no      *)
(* argument their schema does not have, whatever was translated on the way.  *)
Executable ==
  Answered /\ Sent /\ DOMAIN client # {} =>
    /\ answer.name \in DOMAIN client
    /\ client[answer.name] = {} \/ answer.args = Raw
         \/ DOMAIN answer.args \subseteq client[answer.name]

(* Several keys of the table share their aliases, and a map has no order:    *)
(* whichever is found, the client gets the same call.                        *)
OneAnswer ==
  Answered /\ "search" \notin DOMAIN client => \A k \in Canonical(call.name) : answer = Gated(k)

(* A call the client is sent is one it can make, and the only one it could   *)
(* have been sent.                                                           *)
CallsUsable == Executable /\ OneAnswer

(* The same of any client.  Fails: one that has declared a Search tool and   *)
(* no grep is sent a call of ripgrep, or is not, as the map is gone through. *)
AlwaysOneAnswer == \A j, k \in Canonical(call.name) : Gated(j) = Gated(k)

(* What a search is for reaches the tool that is to search.  Fails: a Grep   *)
(* that was declared with a pattern and is called with a query, which every  *)
(* other way rewrites, loses it.                                             *)
KeepsPattern ==
  Answered /\ Sent /\ IsGrep(Lower(call.name)) /\ answer.name = "grep" /\ Given({"pattern", "query"}) =>
    ("pattern" \in SchemaOf(answer.name) => "pattern" \in DOMAIN answer.args)

(* toolmap.go:426: a call by the name of a declared tool is meant for it.    *)
(* Fails: with two tools of one kind the first name in the table has it.     *)
OwnName ==
  Answered /\ Sent /\ Lower(call.name) \in DOMAIN client => answer.name = Lower(call.name)
=============================================================================
