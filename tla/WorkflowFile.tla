---------------------------- MODULE WorkflowFile ----------------------------
(***************************************************************************)
(* WORKFLOW.md between those who write it and those who read it: the       *)
(* wizard's generator and doctor's migration block on one side, the reader *)
(* of its front matter -- a YAML of this program's own -- and of the policy*)
(* in it on the other.  A file is a sequence of lines; a name is one of a  *)
(* few that YAML takes for something else, told apart by their shape.      *)
(***************************************************************************)
EXTENDS Integers, Sequences, FiniteSets

CONSTANTS Shape,      \* of every name that may stand in a file
          Env,        \* the names that are references to variables that are set
          Policies,   \* what the writers may mean
          Templates,  \* what prompts may ask of an issue
          Issues,     \* what issues may offer
          Sample,     \* what the built-in sample issue offers
          MaxEdits    \* bound

Names == DOMAIN Shape

\* "typed" reads as a number, a boolean or nothing, "comment" holds one, "colon"
\* and "colonspace" hold a colon, "list" stands in brackets, "env" is a reference.
Shapes == {"word", "typed", "int", "comment", "colon", "colonspace", "list", "env"}

WorkflowFileAssumption ==
  /\ Shape \in [Names -> Shapes]
  /\ Env \subseteq {n \in Names : Shape[n] = "env"}

VARIABLES
  meant,     \* the policy the writer had in mind
  origin,    \* who wrote the file: "wizard", "user" or "migration"
  lines,     \* the front matter
  template,  \* what the prompt asks for
  edits,     \* edits since
  checked,   \* the last word of `workflow validate` on this file
  run        \* the last dispatch of this file: its issue and how it went

vars == <<meant, origin, lines, template, edits, checked, run>>

-----------------------------------------------------------------------------
(* Trees and lines.                                                         *)

Node(t, s, kids) == [t |-> t, s |-> s, kids |-> kids]
Missing == Node("none", "", <<>>)
Broken == Node("broken", "", <<>>)
Str(s) == Node("str", s, <<>>)
IntLit(s) == Node("int", s, <<>>)
Quoted(s) == Node("quoted", s, <<>>)
Kid(k, n) == [k |-> k, n |-> n]
Map(kids) == Node("map", "", kids)
List(seq) == Node("list", "", [i \in 1 .. Len(seq) |-> Kid("", Str(seq[i]))])

Keys(node) == {node.kids[i].k : i \in 1 .. Len(node.kids)}
Get(node, key) ==
  IF \E i \in 1 .. Len(node.kids) : node.kids[i].k = key
  THEN node.kids[CHOOSE i \in 1 .. Len(node.kids) : node.kids[i].k = key].n
  ELSE Missing

\* A key that comes twice is the later one, in the place of the first.
Put(node, k, n) ==
  IF node.t = "map" /\ k \in Keys(node)
  THEN [node EXCEPT !.kids = [i \in 1 .. Len(@) |-> IF @[i].k = k THEN Kid(k, n) ELSE @[i]]]
  ELSE [node EXCEPT !.kids = Append(@, Kid(k, n))]

Token(q, s) == [q |-> q, s |-> s]
NoToken == Token(FALSE, "")
Line(indent, item, key, val) == [indent |-> indent, item |-> item, key |-> key, val |-> val]

RECURSIVE Joined(_)
Joined(seqs) == IF seqs = <<>> THEN <<>> ELSE Head(seqs) \o Joined(Tail(seqs))

-----------------------------------------------------------------------------
(* The generator.                                                           *)

ShouldQuote(s) == Shape[s] \in {"typed", "int", "comment", "colonspace", "list"}

FormatScalar(node) ==
  Token(node.t = "quoted" \/ (node.t = "str" /\ ShouldQuote(node.s)), node.s)

\* The keys of the format are bare, names of the user's own are in quotes.
Bare == {"tracker", "kind", "active_states", "terminal_states", "provider", "project_id",
         "state_field", "project_slug", "api_key", "priority", "source", "field", "values",
         "labels", "blocker_check_states", "planning_states", "agent",
         "max_concurrent_agents", "runtime", "command"}
FormatKey(k) == Token(k \notin Bare, k)

RECURSIVE Written(_, _)
Written(node, indent) ==
  Joined([i \in 1 .. Len(node.kids) |->
    LET k == node.kids[i].k
        n == node.kids[i].n IN
    CASE node.t = "list" -> <<Line(indent, TRUE, NoToken, FormatScalar(n))>>
      [] n.t = "list" /\ n.kids = <<>> ->
           <<Line(indent, FALSE, FormatKey(k), Token(FALSE, "[]"))>>
      [] n.t \in {"list", "map"} ->
           <<Line(indent, FALSE, FormatKey(k), NoToken)>> \o Written(n, indent + 2)
      [] OTHER -> <<Line(indent, FALSE, FormatKey(k), FormatScalar(n))>>])

Numbers(seq) == Map([i \in 1 .. Len(seq) |-> Kid(seq[i], IntLit("1"))])

PriorityNode(p) ==
  Map(CASE p.source = "project-field" ->
             <<Kid("source", Str("project-field")), Kid("field", Quoted(p.field)),
               Kid("values", Numbers(p.values))>>
        [] p.source = "labels" ->
             <<Kid("source", Str("labels")), Kid("labels", Numbers(p.values))>>
        [] OTHER -> <<Kid("source", Str("disabled"))>>)

ProviderKids(p) ==
  (IF p.kind = "linear"
   THEN <<Kid("api_key", Str("$KEY")), Kid("project_slug", Str("board"))>>
   ELSE <<Kid("project_id", Str("board")), Kid("state_field", Str(p.field))>>
        \o <<Kid("priority", PriorityNode(p.priority))>>)
  \o <<Kid("blocker_check_states", List(p.blockers)), Kid("planning_states", List(p.planning))>>

StateKids(p) ==
  (IF p.active = <<>> THEN <<>> ELSE <<Kid("active_states", List(p.active))>>)
  \o (IF p.terminal = <<>> THEN <<>> ELSE <<Kid("terminal_states", List(p.terminal))>>)

TrackerNode(p) ==
  Map(<<Kid("kind", Str(p.kind))>> \o StateKids(p) \o <<Kid("provider", Map(ProviderKids(p)))>>)

RuntimeNode == Map(<<Kid("kind", Str("codex-app-server")), Kid("command", Str("codex"))>>)

Rest == <<Kid("agent", Map(<<Kid("max_concurrent_agents", IntLit("1"))>>)),
          Kid("runtime", RuntimeNode)>>

FrontMatter(p) == Map(<<Kid("tracker", TrackerNode(p))>> \o Rest)

\* The files of before, which their users keep: the keys of the provider stand
\* in the tracker.
FlatFrontMatter(p) ==
  Map(<<Kid("tracker", Map(<<Kid("kind", Str(p.kind))>> \o StateKids(p) \o ProviderKids(p)))>>
      \o Rest)

-----------------------------------------------------------------------------
(* The reader of the front matter.                                          *)

ShapeOf(s) == IF s = "[]" THEN "list" ELSE IF s \in Names THEN Shape[s] ELSE "word"

\* What is in quotes is what it says; a comment is cut off.
Scalar(tok) ==
  CASE tok.q -> Str(tok.s)
    [] ShapeOf(tok.s) = "int" -> IntLit(tok.s)
    [] ShapeOf(tok.s) = "typed" -> Node("typed", tok.s, <<>>)
    [] ShapeOf(tok.s) = "list" -> Node("list", "", <<>>)
    [] ShapeOf(tok.s) = "comment" -> Str("cut")
    [] OTHER -> Str(tok.s)

\* A bare key ends at its first colon; what follows is its value.
SplitsAt(line) == ~line.item /\ ~line.key.q /\ ShapeOf(line.key.s) \in {"colon", "colonspace"}
KeyOf(line) == IF SplitsAt(line) THEN Str("cut") ELSE Scalar(line.key)
ValueOf(line) == IF SplitsAt(line) THEN Str("cut") ELSE Scalar(line.val)
HasValue(line) == line.val # NoToken \/ SplitsAt(line)

\* A block is a list or a map throughout.
Fits(node, line) == node.t \in {"none", IF line.item THEN "list" ELSE "map"}
Opened(node, line) ==
  IF node.t = "none" THEN Node(IF line.item THEN "list" ELSE "map", "", <<>>) ELSE node
Closed(node) == IF node.t = "none" THEN Map(<<>>) ELSE node

RECURSIVE Block(_, _, _, _)
Block(ls, i, indent, node) ==
  IF i > Len(ls) THEN [node |-> Closed(node), next |-> i]
  ELSE LET line == ls[i]
           open == Opened(node, line)
           key == IF line.item THEN Str("") ELSE KeyOf(line) IN
    CASE line.indent < indent -> [node |-> Closed(node), next |-> i]
      [] line.indent > indent \/ ~Fits(node, line) \/ key.t # "str" ->
           [node |-> Broken, next |-> i]
      [] HasValue(line) -> Block(ls, i + 1, indent, Put(open, key.s, ValueOf(line)))
      [] OTHER ->
           LET child == Block(ls, i + 1, indent + 2, Missing) IN
           IF child.node = Broken THEN child
           ELSE Block(ls, child.next, indent, Put(open, key.s, child.node))

Parsed(ls) == Block(ls, 1, 0, Missing).node

-----------------------------------------------------------------------------
(* The reader of the policy.                                                *)

Absent(node) == node.t = "none" \/ (node.t = "typed" /\ node.s = "null")
IsStr(node) == Absent(node) \/ node.t = "str"
IsMap(node) == Absent(node) \/ node.t = "map"
IsCount(node) == Absent(node) \/ (node.t = "int" /\ node.s # "0")
IsStrings(node) ==
  Absent(node) \/ (node.t = "list" /\ \A i \in 1 .. Len(node.kids) : node.kids[i].n.t = "str")
IsNumbers(node) ==
  node.t = "map" /\ node.kids # <<>> /\ \A i \in 1 .. Len(node.kids) : node.kids[i].n.t = "int"

Strings(node) == [i \in 1 .. Len(node.kids) |-> node.kids[i].n.s]

\* Every string of the provider, in its lists and maps too, may be a reference,
\* and then its variable has to be there.
RECURSIVE Resolves(_)
Resolves(node) ==
  /\ (node.t \in {"str", "quoted"} /\ ShapeOf(node.s) = "env") => node.s \in Env
  /\ \A i \in 1 .. Len(node.kids) : Resolves(node.kids[i].n)

Deprecated == {"api_key", "project_slug", "project_id", "endpoint", "state_field", "priority",
               "priority_field", "pickup_labels", "blocker_check_states", "planning_states"}
DeprecatedKeys(tracker) == Deprecated \cap Keys(tracker)

\* For a migration only, the keys of the tracker count as the provider's.
RECURSIVE Promoted(_, _)
Promoted(provider, kids) ==
  IF kids = <<>> THEN provider
  ELSE Promoted(IF Head(kids).k \in Deprecated \ Keys(provider) /\ ~Absent(Head(kids).n)
                THEN Put(provider, Head(kids).k, Head(kids).n) ELSE provider,
                Tail(kids))
ProviderOf(tracker, migrating) ==
  LET own == Get(tracker, "provider")
      provider == IF Absent(own) THEN Map(<<>>) ELSE own IN
  IF migrating THEN Promoted(provider, tracker.kids) ELSE provider

GitHubProviderIsValid(provider) ==
  /\ \A k \in {"project_id", "endpoint", "state_field", "priority_field"} :
       Get(provider, k).t \in {"none", "str"}
  /\ \A k \in {"active_states", "terminal_states", "blocker_check_states", "planning_states"} :
       Get(provider, k).t = "none" \/ (IsStrings(Get(provider, k)) /\ ~Absent(Get(provider, k)))
  /\ \A k \in {"priority", "pickup_labels"} : Get(provider, k).t \in {"none", "map"}

LinearProviderIsValid(provider) ==
  /\ Get(provider, "project_slug").t = "str"
  /\ Get(provider, "endpoint").t \in {"none", "str"}
  /\ LET key == Get(provider, "api_key") IN
       Absent(key) \/ (key.t = "str" /\ ShapeOf(key.s) = "env")
  /\ Absent(Get(provider, "project_id"))

PriorityIsValid(node) ==
  \/ Absent(node)
  \/ /\ node.t = "map"
     /\ CASE Get(node, "source") = Str("project-field") ->
               /\ Keys(node) \subseteq {"source", "field", "values"}
               /\ Get(node, "field").t = "str" /\ IsNumbers(Get(node, "values"))
          [] Get(node, "source") = Str("labels") ->
               Keys(node) \subseteq {"source", "labels"} /\ IsNumbers(Get(node, "labels"))
          [] Get(node, "source") = Str("disabled") -> Keys(node) = {"source"}
          [] OTHER -> FALSE

RuntimeIsValid(node) ==
  \/ Absent(node)
  \/ /\ node.t = "map" /\ IsStr(Get(node, "command"))
     /\ \/ Get(node, "kind") \in {Str("codex-app-server"), Str("claude-print")}
        \/ Get(node, "kind") = Str("custom") /\ ~Absent(Get(node, "command"))

TrackerIsValid(tracker, migrating) ==
  LET provider == ProviderOf(tracker, migrating)
      kind == Get(tracker, "kind") IN
  /\ IsStr(kind) /\ (~Absent(kind) => kind.s \in {"github-project", "linear", "file"})
  /\ migrating \/ DeprecatedKeys(tracker) = {}
  /\ provider.t = "map" /\ Resolves(provider)
  /\ IsStrings(Get(tracker, "active_states")) /\ IsStrings(Get(tracker, "terminal_states"))
  /\ IsStrings(Get(provider, "blocker_check_states")) /\ IsStrings(Get(provider, "planning_states"))
  /\ kind = Str("github-project") => GitHubProviderIsValid(provider)
  /\ kind = Str("linear") => LinearProviderIsValid(provider)
  /\ PriorityIsValid(Get(provider, "priority"))

Accepts(tree, migrating) ==
  /\ tree.t = "map"
  /\ \A k \in {"tracker", "agent", "runtime"} : IsMap(Get(tree, k))
  /\ TrackerIsValid(Get(tree, "tracker"), migrating)
  /\ IsCount(Get(Get(tree, "agent"), "max_concurrent_agents"))
  /\ RuntimeIsValid(Get(tree, "runtime"))

\* What is left out is the default: here, the first active state is the one
\* where blocked issues wait.
StatesOr(node, default) == IF Absent(node) THEN default ELSE Strings(node)

PriorityOf(node) ==
  [source |-> IF Absent(node) THEN "none" ELSE Get(node, "source").s,
   field |-> Get(node, "field").s,
   values |-> LET map == IF "values" \in Keys(node) THEN "values" ELSE "labels" IN
              [i \in 1 .. Len(Get(node, map).kids) |-> Get(node, map).kids[i].k]]

Meaning(tree, migrating) ==
  LET tracker == Get(tree, "tracker")
      provider == ProviderOf(tracker, migrating)
      active == StatesOr(Get(provider, "active_states"),
                         StatesOr(Get(tracker, "active_states"), <<"Todo", "In Progress">>)) IN
  [kind |-> Get(tracker, "kind").s,
   field |-> LET f == Get(provider, "state_field") IN IF Absent(f) THEN "Status" ELSE f.s,
   active |-> active,
   terminal |-> StatesOr(Get(provider, "terminal_states"),
                         StatesOr(Get(tracker, "terminal_states"), <<"Done">>)),
   blockers |-> StatesOr(Get(provider, "blocker_check_states"),
                         IF active = <<>> THEN <<>> ELSE <<active[1]>>),
   planning |-> StatesOr(Get(provider, "planning_states"), <<>>),
   priority |-> PriorityOf(Get(provider, "priority"))]

Reads(ls, migrating) == Accepts(Parsed(ls), migrating)
MeaningOf(ls) == Meaning(Parsed(ls), FALSE)

-----------------------------------------------------------------------------
(* Doctor's migration: the provider as it should be, to be copied.          *)

\* Its strings are in quotes, and its keys never are.
RECURSIVE Rendered(_, _)
Rendered(node, indent) ==
  Joined([i \in 1 .. Len(node.kids) |->
    LET key == Token(FALSE, node.kids[i].k)
        n == node.kids[i].n IN
    CASE node.t = "list" -> <<Line(indent, TRUE, NoToken, Token(TRUE, n.s))>>
      [] n.t = "list" /\ n.kids = <<>> -> <<Line(indent, FALSE, key, Token(FALSE, "[]"))>>
      [] n.t \in {"list", "map"} ->
           <<Line(indent, FALSE, key, NoToken)>> \o Rendered(n, indent + 2)
      [] OTHER -> <<Line(indent, FALSE, key, Token(n.t = "str", n.s))>>])

RECURSIVE Without(_, _)
Without(kids, keys) ==
  IF kids = <<>> THEN <<>>
  ELSE (IF Head(kids).k \in keys THEN <<>> ELSE <<Head(kids)>>) \o Without(Tail(kids), keys)

\* The file with its flat keys gone and the block under its tracker.
MigratedLines(ls) ==
  LET tree == Parsed(ls)
      tracker == Get(tree, "tracker")
      flat == DeprecatedKeys(tracker)
      kept == Without(tracker.kids, flat)
      provider == ProviderOf(tracker, TRUE) IN
  <<Line(0, FALSE, FormatKey("tracker"), NoToken)>> \o Written(Map(kept), 2)
    \o <<Line(2, FALSE, FormatKey("provider"), NoToken)>>
    \o Rendered(Map(Without(provider.kids, Keys(provider) \ flat)), 4)
    \o Written(Map(Without(tree.kids, {"tracker"})), 0)

-----------------------------------------------------------------------------
(* The prompt.                                                              *)

\* Liquid is strict: a prompt that asks for what is not there is not rendered.
Renders(issue) == template \subseteq issue

-----------------------------------------------------------------------------
NoRun == [issue |-> {}, how |-> "none"]

Init ==
  /\ meant \in Policies /\ template \in Templates
  /\ \/ origin = "wizard" /\ lines = Written(FrontMatter(meant), 0)
     \/ origin = "user" /\ lines = Written(FlatFrontMatter(meant), 0)
  /\ edits = 0 /\ checked = "none" /\ run = NoRun

Migrate ==
  /\ origin = "user" /\ edits = 0
  /\ DeprecatedKeys(Get(Parsed(lines), "tracker")) # {} /\ Reads(lines, TRUE)
  /\ origin' = "migration" /\ lines' = MigratedLines(lines)
  /\ checked' = "none" /\ run' = NoRun
  /\ UNCHANGED <<meant, template, edits>>

Edited(new) ==
  /\ edits < MaxEdits /\ edits' = edits + 1
  /\ lines' = new
  /\ checked' = "none" /\ run' = NoRun
  /\ UNCHANGED <<meant, origin, template>>

Remove(i) ==
  Edited([j \in 1 .. Len(lines) - 1 |-> IF j < i THEN lines[j] ELSE lines[j + 1]])
Shift(i, by) ==
  lines[i].indent + by >= 0 /\ Edited([lines EXCEPT ![i].indent = @ + by])

\* `workflow validate`: the same reader, and the prompt for the sample issue.
Validate ==
  /\ checked' = IF Reads(lines, FALSE) /\ Renders(Sample) THEN "ok" ELSE "refused"
  /\ UNCHANGED <<meant, origin, lines, template, edits, run>>

\* The daemon reads the file, wants a tracker to be named, and renders the prompt
\* of the worker it starts.
Dispatch(issue) ==
  /\ run' = [issue |-> issue,
             how |-> IF /\ Reads(lines, FALSE)
                        /\ ~Absent(Get(Get(Parsed(lines), "tracker"), "kind"))
                        /\ Renders(issue)
                     THEN "started" ELSE "refused"]
  /\ UNCHANGED <<meant, origin, lines, template, edits, checked>>

Next ==
  \/ Migrate \/ Validate
  \/ \E i \in 1 .. Len(lines) : Remove(i) \/ \E by \in {-2, 2} : Shift(i, by)
  \/ \E issue \in Issues : Dispatch(issue)

Spec == Init /\ [][Next]_vars

-----------------------------------------------------------------------------
(* Properties.                                                              *)

\* The reader takes a file of the generator for the policy it was made from,
\* whatever the columns, fields and labels of the board are called.
WrittenIsMeant ==
  (origin = "wizard" /\ edits = 0 /\ Resolves(Map(ProviderKids(meant)))) =>
    Reads(lines, FALSE) /\ MeaningOf(lines) = [meant EXCEPT !.field =
                                                IF meant.kind = "linear" THEN "Status" ELSE @]

\* A file whose lines were taken out or moved is refused, or every value still
\* in it is read: none is passed over because of where it stands.
RECURSIVE Leaves(_)
Leaves(node) ==
  IF node.t \in {"map", "list"} /\ node.kids # <<>>
  THEN LET Sums[i \in 0 .. Len(node.kids)] ==
             IF i = 0 THEN 0 ELSE Sums[i - 1] + Leaves(node.kids[i].n)
       IN Sums[Len(node.kids)]
  ELSE IF node.t = "map" THEN 0 ELSE 1
NoLineIsLost ==
  Parsed(lines).t # "broken" =>
    Leaves(Parsed(lines)) = Cardinality({i \in 1 .. Len(lines) : HasValue(lines[i])})

\* A file that doctor's block was copied into means what it meant before -- as
\* long as the names a priority is read from are plain words.
PlainWords == \A i \in 1 .. Len(meant.priority.values) : Shape[meant.priority.values[i]] = "word"
MigratedIsMeant ==
  (origin = "migration" /\ edits = 0 /\ PlainWords) =>
    Reads(lines, FALSE)
    /\ MeaningOf(lines) = Meaning(FlatFrontMatter(meant), TRUE)

\* What `workflow validate` passes is dispatched, but for an issue that lacks
\* what the sample has, or a file that names no tracker.
ValidatedDispatches ==
  (checked = "ok" /\ run.how = "refused") =>
    \/ Absent(Get(Get(Parsed(lines), "tracker"), "kind"))
    \/ ~(Sample \subseteq run.issue)

FilesAreUnderstood ==
  WrittenIsMeant /\ NoLineIsLost /\ MigratedIsMeant /\ ValidatedDispatches

\* Refuted: the block is not copyable where a label or option has a colon in its
\* name, or is a number.
MigrationIsCopyable ==
  (origin = "migration" /\ edits = 0) => Reads(lines, FALSE)

\* Refuted by hand: a column named like a reference to a variable makes a file
\* that its reader refuses.
WrittenIsRead == (origin = "wizard" /\ edits = 0) => Reads(lines, FALSE)
=============================================================================
