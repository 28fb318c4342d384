---------------------------- MODULE StateReaders ----------------------------
(***************************************************************************)
(* Readers of the state directory while its daemon writes: the runs and    *)
(* workspaces of a project, which may still lie at the root where an older *)
(* version kept them; the status of an issue, by the orchestrator and by   *)
(* the dashboard; and the last events of a run, read from the end of the   *)
(* file chunk by chunk.  Listings and reads are steps of their own, and    *)
(* files are read in no particular order.                                  *)
(* (packages/orchestrator/src/fs-store.ts, packages/dashboard/src/store.ts)*)
(***************************************************************************)
EXTENDS Naturals, Sequences, FiniteSets, FiniteSetsExt

CONSTANTS
    Runs, Spaces,       \* runs and workspaces
    Legacy,             \* those that an older version left at the root
    Foreign,            \* runs of another project
    NoRun,
    MaxSaves,           \* bound: writes
    Chunk, MaxScan,     \* bytes of a read, and of all reads of the dashboard
    MaxLine, MaxLines   \* bounds: bytes of a line, lines of a log

Items == Runs \cup Spaces
Places == {"root", "own", "other"}
Home(i) == IF i \in Foreign THEN "other" ELSE "own"

(* Assumed of the constants, by the modules that check this one.            *)
ReadersAssumption ==
    /\ Runs \cap Spaces = {} /\ Legacy \subseteq Items /\ Foreign \subseteq Runs /\ NoRun \notin Runs
    /\ {Chunk, MaxScan, MaxLine} \subseteq Nat \ {0} /\ {MaxSaves, MaxLines} \subseteq Nat

VARIABLES
    now,        \* writes so far, which date them
    record,     \* per place and item: when its file there was written, 0 without one
    current,    \* currentRunId of the issue
    log,        \* the lines of a run's events.ndjson
    asked       \* the read under way

readerVars == <<now, record, current, log, asked>>

NoRead == [kind |-> "none", at |-> "idle", places |-> <<>>, paths |-> {}, got |-> {},
           since |-> [i \in Items |-> 0], currents |-> {}, current |-> NoRun, shown |-> NoRun]

Init ==
    /\ now = 1 /\ current = NoRun /\ log = <<>> /\ asked = NoRead
    /\ record = [p \in Places |-> [i \in Items |-> IF p = "root" /\ i \in Legacy THEN 1 ELSE 0]]

-----------------------------------------------------------------------------
(* The daemon.                                                              *)

Write == now <= MaxSaves /\ log = <<>> /\ now' = now + 1

(* A save goes to the project's own directory, wherever the item was.       *)
Save(i) ==
    /\ Write /\ record' = [record EXCEPT ![Home(i)][i] = now']
    /\ UNCHANGED <<current, log, asked>>

(* removeIssueWorkspace removes no copy at the root.                        *)
Remove(s) ==
    /\ Write /\ s \in Spaces /\ record["own"][s] # 0
    /\ record' = [record EXCEPT !["own"][s] = 0]
    /\ asked' = [asked EXCEPT !.since[s] = 0]
    /\ UNCHANGED <<current, log>>

(* A run is saved before its issue names it.                                *)
Point(r) ==
    /\ Write /\ (r = NoRun \/ (r \in Runs \ Foreign /\ record["own"][r] # 0))
    /\ current' = r
    /\ asked' = [asked EXCEPT !.currents = IF asked.at = "idle" THEN @ ELSE @ \cup {r}]
    /\ UNCHANGED <<record, log>>

(* A line may be cut short by a crash, or not be what its digest says.      *)
AppendLine ==
    /\ Len(log) < MaxLines /\ now = 1 /\ asked.at = "idle"
    /\ \E size \in 1..MaxLine, ok \in BOOLEAN : log' = Append(log, [size |-> size, ok |-> ok])
    /\ UNCHANGED <<now, record, current, asked>>

-----------------------------------------------------------------------------
(* Readers.  The dates of the files when the read began, and the runs that  *)
(* were the current one since, are history.                                 *)

Newest(i) == Max({record[p][i] : p \in IF record[Home(i)][i] # 0 THEN {Home(i)} ELSE {"root"}})

PlacesOf(kind) ==
    CASE kind = "all" -> <<"root", "own", "other">>
      [] kind = "dashboard" -> <<"own">>
      [] OTHER -> <<"own", "root">>

Ask(kind) ==
    /\ asked.at = "idle" /\ log = <<>>
    /\ asked' = [NoRead EXCEPT !.kind = kind, !.places = PlacesOf(kind),
                               !.at = IF kind \in {"status", "dashboard"} THEN "issue" ELSE "list",
                               !.since = [i \in Items |-> Newest(i)], !.currents = {current}]
    /\ UNCHANGED <<now, record, current, log>>

reading == UNCHANGED <<now, record, current, log>>

ReadIssue ==
    /\ asked.at = "issue" /\ reading
    /\ asked' = [asked EXCEPT !.current = current, !.at = IF current = NoRun THEN "list" ELSE "run"]

(* The current run is read from the project's directory only.               *)
ReadCurrent ==
    /\ asked.at = "run" /\ reading
    /\ asked' = IF record["own"][asked.current] # 0
                THEN [asked EXCEPT !.shown = asked.current, !.at = "done"]
                ELSE [asked EXCEPT !.at = "list"]

Listed(p) == {i \in IF asked.kind = "spaces" THEN Spaces ELSE Runs : record[p][i] # 0}

(* A workspace found in both places is one entry.                           *)
List ==
    /\ asked.at = "list" /\ asked.places # <<>> /\ reading
    /\ LET p == Head(asked.places) IN
          asked' = [asked EXCEPT !.places = Tail(@),
             !.paths = @ \cup {<<IF asked.kind = "spaces" THEN "own" ELSE p, i>> : i \in Listed(p)}]

(* A file that is gone is none; a workspace's own copy comes first.         *)
FileAt(p, i) ==
    IF asked.kind = "spaces" /\ record["own"][i] = 0 THEN record["root"][i] ELSE record[p][i]

ReadFile ==
    /\ asked.at = "list" /\ asked.places = <<>> /\ reading
    /\ \E path \in asked.paths :
          LET date == FileAt(path[1], path[2]) IN
          asked' = [asked EXCEPT !.paths = @ \ {path},
             !.got = IF date = 0 THEN @ ELSE @ \cup {[place |-> path[1], item |-> path[2], date |-> date]}]

(* Of a run found twice the project's copy counts; runs of other projects   *)
(* do not.  All runs are all files.                                         *)
Result ==
    IF asked.kind \in {"all", "spaces"} THEN asked.got
    ELSE {g \in asked.got :
             g.item \notin Foreign /\ ~\E h \in asked.got : h.item = g.item /\ h.place = "own" /\ h # g}

(* findLatestRunForIssue                                                    *)
Latest == IF Result = {} THEN NoRun
          ELSE (CHOOSE g \in Result : \A h \in Result : h.date <= g.date).item

Answer ==
    /\ asked.at = "list" /\ asked.places = <<>> /\ asked.paths = {} /\ reading
    /\ asked' = [asked EXCEPT !.at = "done",
                              !.shown = IF asked.kind \in {"status", "dashboard"} THEN Latest ELSE NoRun]

Leave == asked.at = "done" /\ asked' = NoRead /\ reading

Next ==
    \/ \E i \in Items : Save(i)
    \/ \E s \in Spaces : Remove(s)
    \/ \E r \in Runs \cup {NoRun} : Point(r)
    \/ \E kind \in {"runs", "all", "spaces", "status", "dashboard"} : Ask(kind)
    \/ AppendLine \/ ReadIssue \/ ReadCurrent \/ List \/ ReadFile \/ Answer \/ Leave

Spec == Init /\ [][Next]_readerVars

-----------------------------------------------------------------------------
(* loadRecentRunEvents: what is read of the log, from its end.              *)

Bytes(n) == FoldSet(LAMBDA k, sum : sum + log[k].size, 0, 1..n)
Size == Bytes(Len(log))
Position(chunks) == IF Size > chunks * Chunk THEN Size - chunks * Chunk ELSE 0

(* parseRecentEvents: a first line that may be cut is left out.             *)
Parsed(position, limit) ==
    LET whole == {k \in DOMAIN log : log[k].ok /\ (position = 0 \/ Bytes(k - 1) > position)} IN
    {k \in whole : Cardinality({j \in whole : j > k}) < limit}

Reads(enough(_)) ==
    CHOOSE n \in 0..Size : enough(n) /\ \A m \in 0..(n - 1) : ~enough(m)

(* The orchestrator reads until it has enough events; the dashboard, until  *)
(* it has seen more line ends than that, or MaxScan bytes.                  *)
RecentEvents(limit) ==
    Parsed(Position(Reads(LAMBDA n : Position(n) = 0
                                 \/ (n > 0 /\ Cardinality(Parsed(Position(n), limit)) >= limit))), limit)

LineEnds(position) == Cardinality({k \in DOMAIN log : Bytes(k) > position})
Scanned(n) == IF Size - Position(n) > MaxScan THEN Size - MaxScan ELSE Position(n)
DashboardEvents(limit) ==
    Parsed(Scanned(Reads(LAMBDA n : \/ Scanned(n) = 0 \/ Size - Scanned(n) >= MaxScan
                                    \/ LineEnds(Scanned(n)) > limit)), limit)

-----------------------------------------------------------------------------
(* Properties.                                                              *)

(* A reader gets every item as it was when the read began, or newer, once   *)
(* for each project, however its files move and change meanwhile.           *)
ReadsAreCurrent ==
    asked.at = "done" /\ asked.kind \in {"runs", "all", "spaces"} =>
        /\ \A i \in IF asked.kind = "spaces" THEN Spaces
                    ELSE IF asked.kind = "all" THEN Runs ELSE Runs \ Foreign :
              asked.since[i] # 0 => \E g \in Result : g.item = i /\ g.date >= asked.since[i]
        /\ asked.kind = "runs" => \A g, h \in Result : g.item = h.item => g = h

(* The status of an issue is of a run that was its current one while it was *)
(* read, or of none older than the newest.                                  *)
StatusIsCurrent ==
    asked.at = "done" /\ asked.kind = "status" =>
        \/ asked.shown \in asked.currents \ {NoRun}
        \/ \A r \in Runs \ Foreign :
              asked.since[r] # 0 =>
                 \E g \in Result : g.item = asked.shown /\ asked.since[r] <= g.date

(* The recent events are the last ones of the file that are whole, however  *)
(* the reads cut it; of the dashboard's none is left out in between.        *)
RecentAreLast ==
    \A limit \in 1..(MaxLines + 1) :
        LET last == Parsed(0, limit) IN
        /\ RecentEvents(limit) = last
        /\ \A k \in last, d \in DashboardEvents(limit) : d \in last /\ (k > d => k \in DashboardEvents(limit))

ReadersHold == ReadsAreCurrent /\ StatusIsCurrent /\ RecentAreLast

(* Does not hold: core/src/contracts/state-store.ts removes a workspace;    *)
(* what an older version left of it at the root is read again.              *)
RemovedStayRemoved ==
    asked.at = "done" /\ asked.kind = "spaces" =>
        \A g \in Result : record["own"][g.item] # 0 \/ asked.since[g.item] # 0
=============================================================================
