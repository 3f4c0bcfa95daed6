------------------------------ MODULE Insights ------------------------------
(***************************************************************************)
(* edge-insights dismiss: list the security insights of an account page by *)
(* page (insights.Client.List), then dismiss or restore them one by one    *)
(* (DismissMatching, or the ids the user names), while Cloudflare's        *)
(* scanner goes on adding and removing insights and another admin may      *)
(* dismiss one.  The scanner and Cloudflare's list are external: the       *)
(* listing is newest first and cut into pages by position.                 *)
(***************************************************************************)
EXTENDS Naturals, Sequences, FiniteSets, SequencesExt, Functions

CONSTANTS
    Ids,          \* insight ids
    First,        \* the insights at the start, newest first
    PerPage,      \* insights per page
    MaxPages,     \* pages List follows before it gives up
    IdArgs,       \* the -id arguments considered, each a sequence of ids
    MaxRuns,      \* bound: commands run
    MaxChanges    \* bound: changes made by the scanner and other admins

ASSUME PagingAssumption ==
  /\ PerPage \in Nat \ {0} /\ MaxPages \in Nat \ {0}
  /\ First \in Seq(Ids) /\ IsInjective(First)
  /\ \A ids \in IdArgs : ids \in Seq(Ids)
  /\ MaxChanges \in Nat /\ MaxRuns \in Nat

VARIABLES
    issues,     \* Cloudflare: every insight, newest first
    dismissed,  \* Cloudflare: the archived ones
    changes,    \* changes made so far behind the command's back
    runs,       \* commands started so far
    cmd,        \* the command line of the running (or last) command
    pc,         \* "idle", "list", "check", "write", "end"
    page,       \* List's page counter
    out,        \* List's accumulated insights
    todo,       \* what is still to be written
    done,       \* the list the command prints if it ends without error
    err,        \* the error the command ends with, and then all it prints
    blamed,     \* the insight that error names: none, or one
    wrote,      \* ghost: the ids written by this command, in order
    before,     \* ghost: the changes made before the command started
    seen,       \* ghost: the insights that matched all through the listing
    losses      \* ghost: something ceased to match while listing

cloud   == <<issues, dismissed, changes>>
command == <<runs, cmd, pc, page, out, todo, done, err, blamed, wrote>>
ghosts  == <<before, seen, losses>>
vars    == <<cloud, command, ghosts>>

\* Of the first n members of a list those in S, in order, for each n; and of all.
Upto(list, S) ==
  LET f[n \in 0 .. Len(list)] ==
        IF n = 0 THEN << >>
        ELSE IF list[n] \in S THEN Append(f[n - 1], list[n]) ELSE f[n - 1]
  IN  f

Only(list, S) == Upto(list, S)[Len(list)]

\* Mutant: undo does not override the filter's state.
ActiveOnly(c, list, arch) == {i \in ToSet(list) : c.byIds \/ i \notin arch}

\* The insights that pass the filter, and their listing. By ids every state is
\* listed; by filter only active ones, or with undo only dismissed ones.
Passes(c, list, arch) == {i \in ToSet(list) : c.byIds \/ ((i \in arch) <=> c.undo)}

Matching(c, list, arch) == Only(list, Passes(c, list, arch))

Init ==
  /\ issues = First /\ dismissed \in SUBSET ToSet(First) /\ changes = 0
  /\ runs = 0
  /\ cmd = [byIds |-> FALSE, ids |-> <<>>, apply |-> FALSE, undo |-> FALSE]
  /\ pc = "idle" /\ page = 1 /\ out = <<>> /\ todo = <<>> /\ done = <<>>
  /\ err = "none" /\ blamed = <<>> /\ wrote = <<>>
  /\ before = 0 /\ seen = {} /\ losses = FALSE

-----------------------------------------------------------------------------
(* The world outside. *)

\* What changed under a listing in progress, for the properties.
Observe(list, arch) ==
  LET now == Passes(cmd, list, arch)
      was == Passes(cmd, issues, dismissed)
  IN  /\ seen' = IF pc = "list" THEN seen \cap now ELSE seen
      /\ losses' = (losses \/ (pc = "list" /\ ~(was \subseteq now)))
      /\ UNCHANGED before

Change(list, arch) ==
  /\ changes < MaxChanges /\ changes' = changes + 1
  /\ issues' = list /\ dismissed' = arch
  /\ Observe(list, arch)
  /\ UNCHANGED command

Found(i)    == i \notin ToSet(issues) /\ Change(<<i>> \o issues, dismissed)
Resolved(i) == i \in ToSet(issues) /\ Change(Only(issues, Ids \ {i}), dismissed \ {i})
OtherAdmin(i) ==
  /\ i \in ToSet(issues)
  /\ Change(issues, IF i \in dismissed THEN dismissed \ {i} ELSE dismissed \cup {i})

-----------------------------------------------------------------------------
(* The command. *)

Start(c) ==
  /\ pc \in {"idle", "end"} /\ runs < MaxRuns
  /\ runs' = runs + 1 /\ cmd' = c
  /\ pc' = "list" /\ page' = 1
  /\ out' = <<>> /\ todo' = <<>> /\ done' = <<>> /\ wrote' = <<>>
  /\ err' = "none" /\ blamed' = <<>>
  /\ before' = changes /\ seen' = Passes(c, issues, dismissed)
  /\ losses' = FALSE
  /\ UNCHANGED cloud

Fail(why, names) == pc' = "end" /\ err' = why /\ blamed' = names

\* Mutant: pages counted from zero.
PageFromZero(list, p) ==
  SubSeq(list, p * PerPage + 1,
         IF (p + 1) * PerPage < Len(list) THEN (p + 1) * PerPage ELSE Len(list))

PageOf(list, p) ==
  SubSeq(list, (p - 1) * PerPage + 1,
         IF p * PerPage < Len(list) THEN p * PerPage ELSE Len(list))

\* One page: the last when it is empty or when as many insights as Cloudflare
\* counts have come; an error past the page limit.
FetchPage ==
  /\ pc = "list"
  /\ LET list == Matching(cmd, issues, dismissed)
         got  == PageOf(list, page)
     IN  /\ out' = out \o got
         /\ page' = page + 1
         /\ IF got = <<>> \/ Len(out') >= Len(list)
            THEN pc' = "check" /\ UNCHANGED <<err, blamed>>
            ELSE IF page' > MaxPages THEN Fail("pages", <<>>)
            ELSE UNCHANGED <<pc, err, blamed>>
  /\ UNCHANGED <<runs, cmd, todo, done, wrote, cloud, ghosts>>

ListFails ==
  /\ pc = "list" /\ Fail("api", <<>>)
  /\ UNCHANGED <<runs, cmd, page, out, todo, done, wrote, cloud, ghosts>>

\* What to write: the whole listing, or the named ids.
Plan == IF cmd.byIds THEN cmd.ids ELSE out

\* The positions of named ids that are not listed.
Unlisted == {n \in 1 .. Len(cmd.ids) : cmd.ids[n] \notin ToSet(out)}

\* An id that is not listed is refused by name. A dry run stops here and prints
\* what it would write. With -apply the ids are all in done before the first PUT;
\* by filter DismissMatching starts an empty list.
Check ==
  /\ pc = "check"
  /\ \/ \E n \in Unlisted :
          /\ \A m \in Unlisted : n <= m
          /\ Fail("unlisted", <<cmd.ids[n]>>)
          /\ done' = SubSeq(cmd.ids, 1, n - 1) /\ UNCHANGED todo
     \/ /\ Unlisted = {}
        /\ IF cmd.apply /\ Plan # <<>>
           THEN pc' = "write" /\ todo' = Plan /\ done' = cmd.ids
           ELSE pc' = "end" /\ done' = Plan /\ UNCHANGED todo
        /\ UNCHANGED <<err, blamed>>
  /\ UNCHANGED <<runs, cmd, page, out, wrote, cloud, ghosts>>

\* Cloudflare applies the PUT (the command's own write is no outside change).
Archive(i) == dismissed' = IF cmd.undo THEN dismissed \ {i} ELSE dismissed \cup {i}

\* The PUT of the next insight succeeds.
WriteOk ==
  /\ pc = "write" /\ Head(todo) \in ToSet(issues)
  /\ Archive(Head(todo))
  /\ wrote' = Append(wrote, Head(todo))
  /\ done' = IF cmd.byIds THEN done ELSE Append(done, Head(todo))
  /\ todo' = Tail(todo)
  /\ pc' = IF Tail(todo) = <<>> THEN "end" ELSE "write"
  /\ UNCHANGED <<runs, cmd, page, out, err, blamed, issues, changes, ghosts>>

\* Mutant: the error of a PUT is not looked at.
Unchecked(applied) ==
  /\ pc = "write"
  /\ IF applied
     THEN /\ Head(todo) \in ToSet(issues) /\ Archive(Head(todo))
          /\ wrote' = Append(wrote, Head(todo))
     ELSE UNCHANGED <<dismissed, wrote>>
  /\ done' = IF cmd.byIds THEN done ELSE Append(done, Head(todo))
  /\ todo' = Tail(todo)
  /\ pc' = IF Tail(todo) = <<>> THEN "end" ELSE "write"
  /\ UNCHANGED <<runs, cmd, page, out, err, blamed, issues, changes, ghosts>>

\* The PUT fails before Cloudflare applies it, or the answer is lost after. The
\* command prints no list: the error, and in it the insight, is all there is.
WriteFails(applied) ==
  /\ pc = "write" /\ Fail("api", <<Head(todo)>>)
  /\ IF applied
     THEN /\ Head(todo) \in ToSet(issues) /\ Archive(Head(todo))
          /\ wrote' = Append(wrote, Head(todo))
     ELSE UNCHANGED <<dismissed, wrote>>
  /\ UNCHANGED <<runs, cmd, page, out, todo, done, issues, changes, ghosts>>

Step == FetchPage \/ ListFails \/ Check \/ WriteOk \/ \E a \in BOOLEAN : WriteFails(a)

\* A filter (no id) or ids, each with or without -apply and -undo.
CommandLines ==
  [byIds : {FALSE}, ids : {<<>>}, apply : BOOLEAN, undo : BOOLEAN]
    \cup [byIds : {TRUE}, ids : IdArgs, apply : BOOLEAN, undo : BOOLEAN]

Next ==
  \/ Step
  \/ \E c \in CommandLines : Start(c)
  \/ \E i \in Ids : Found(i) \/ Resolved(i) \/ OtherAdmin(i)

Spec == Init /\ [][Next]_vars

-----------------------------------------------------------------------------
(* Properties. *)

TypeOK ==
  /\ dismissed \subseteq ToSet(issues) /\ ToSet(issues) \subseteq Ids
  /\ IsInjective(issues)
  /\ pc \in {"idle", "list", "check", "write", "end"}
  /\ err \in {"none", "api", "pages", "unlisted"}
  /\ page \in 1 .. MaxPages + 1
  /\ ToSet(out) \cup ToSet(todo) \cup ToSet(done) \cup ToSet(wrote) \subseteq Ids
  /\ ToSet(blamed) \subseteq Ids

Listed == pc \in {"check", "write"} \/ (pc = "end" /\ err = "none")

\* What arrives while the pages are followed never hides what was there: unless
\* something left the listing meanwhile, every insight that matched all through
\* it was returned, although its page numbers moved.
ArrivalsHideNothing == Listed /\ ~losses => seen \subseteq ToSet(out)

\* From what a command with -apply prints it follows what it did. Without error the
\* list it prints is the writes Cloudflare made, in order, although for named ids the
\* list is made before the first PUT. With an error there is no list; an insight the
\* error of a PUT names ("insight %s: %w") stands in the plan where the writes stop:
\* all before it were made and none after, its own perhaps, and an error that names
\* none, or an id that is not listed, means that nothing was written. By filter
\* what DismissMatching gave runDismiss holds "those done before it" (dismiss.go:75-76).
ReportIsTruth ==
  pc = "end" /\ cmd.apply =>
    /\ err = "none" => done = wrote
    /\ err # "none" /\ (err = "unlisted" \/ blamed = <<>>) => wrote = <<>>
    /\ err = "api" /\ blamed # <<>> =>
         /\ \E n \in 1 .. Len(Plan) : Plan[n] = blamed[1] /\ Len(wrote) \in {n - 1, n}
         /\ IsPrefix(wrote, Plan)
         /\ ~cmd.byIds => IsPrefix(done, wrote) /\ Len(wrote) <= Len(done) + 1

\* A command that ends without error and met no change behind its back did its
\* whole job: no active insight is left (or with -undo no dismissed one), however
\* far an earlier run had come before it failed.
QuietRunFinishes ==
  pc = "end" /\ err = "none" /\ changes = before /\ cmd.apply =>
    LET asked == IF cmd.byIds THEN ToSet(cmd.ids) ELSE ToSet(issues)
    IN  IF cmd.undo THEN asked \cap dismissed = {} ELSE asked \subseteq dismissed

=============================================================================
