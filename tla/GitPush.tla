-------------------------------- MODULE GitPush --------------------------------
(***************************************************************************)
(* A push of a repository and its submodules: GitRepository::planPush,     *)
(* a round of queries whose answers come in any order, and PushPane, which *)
(* locks what the plan writes and runs its steps in order.  A clone's      *)
(* history is its own line of commits, counted from 1, and a commit's tree *)
(* is what it records for each submodule; the remote has a prefix of it.   *)
(* What git does for `rev-list`, `push` and the like is external.          *)
(***************************************************************************)
EXTENDS Naturals, FiniteSets, SequencesExt, Functions

CONSTANTS
    Root,        \* the repository the push is asked of
    Submodules,
    Parent,      \* Submodule -> the repository it is in
    Modes,       \* the ways to push: "Branch", "OneByOne", "UpTo"
    MaxCommits,  \* bound: commits of a clone
    MaxUnpublished, \* bound: commits not published yet as a behaviour begins
    MaxPushes,   \* bound: pushes begun
    MaxOutside,  \* bound: commits and checkouts, by the submodule's window or outside
    MaxFailures  \* bound: commands that fail

Repos == {Root} \cup Submodules
Children(r) == {s \in Submodules : Parent[s] = r}
ChildSeq(r) == SetToSeq(Children(r))   \* as `ls-tree` lists them

\* A submodule is a directory inside its parent's.
ASSUME GitPushAssumption ==
    /\ Root \notin Submodules
    /\ IsFiniteSet(Submodules)
    /\ Parent \in [Submodules -> Repos]
    /\ \E depth \in [Repos -> 0..Cardinality(Submodules)] : \A s \in Submodules : depth[Parent[s]] < depth[s]
    /\ Modes \subseteq {"Branch", "OneByOne", "UpTo"}
    /\ MaxCommits \in Nat \ {0}

VARIABLES
    made,       \* Repo -> its commits: what each records for the children
    at,         \* Repo -> the commit HEAD is on
    onBranch,   \* Repo -> HEAD is on a branch
    upstream,   \* Repo -> that branch has one, and a plain push goes there
    published,  \* Repo -> how many of its commits the remote has
    writing,    \* Submodules whose own window has a write in flight
    locked,     \* Submodules the push holds the push lock of: PushPane::_pushedSubmodules
    push,       \* the push under way
    pushes, outside, failures

clones == <<made, at, onBranch, upstream, published>>
vars == <<clones, writing, locked, push, pushes, outside, failures>>

TreeOf(r) == [Children(r) -> 0..MaxCommits]
Tip(r) == Len(made[r])

\* asked: the queries of the round not answered yet.  nodes: submodules that need a
\* push.  own: the root's commits to push one by one.  index: of the step that runs.
\* The rest is history: what moved since the plan was begun, whether a query of it
\* failed, what the remote had, whether the window refreshed as the push ended.
NoPush == [stage |-> "none", mode |-> "Branch", upTo |-> 0, asked |-> {}, nodes |-> {}, refused |-> FALSE,
           own |-> <<>>, steps |-> <<>>, index |-> 0, retry |-> FALSE,
           moved |-> {}, blind |-> FALSE, before |-> 0, ok |-> FALSE, refreshed |-> FALSE]

Query(q, r, c) == [q |-> q, repo |-> r, commit |-> c]
HEAD == 0
Resolve(r, c) == IF c = HEAD THEN at[r] ELSE c

-------------------------------------------------------------------------------
(* The plan.                                                                 *)

StartPush(mode, upTo) ==
    /\ push.stage \in {"none", "ended"}
    /\ pushes < MaxPushes
    /\ pushes' = pushes + 1
    /\ push' = [NoPush EXCEPT !.stage = "plan", !.mode = mode, !.upTo = upTo, !.before = published[Root],
                              !.asked = {Query("gitlinks", Root, upTo), Query("branch", Root, HEAD)}]
    /\ UNCHANGED <<clones, writing, locked, outside, failures>>

Asks(p, more) == [p EXCEPT !.asked = @ \cup more]
Refuse(p) == [p EXCEPT !.refused = TRUE]

\* The recorded commit c of s is published nowhere: s needs a push, from a branch
\* that contains c, and so may what is nested in its HEAD.
scanSubmodulesForPush(p, s, c) ==
    [Asks(p, {Query("onBranch", s, HEAD), Query("contains", s, c), Query("gitlinks", s, HEAD)})
        EXCEPT !.nodes = @ \cup {s}]

\* The root's commits on its branch that the upstream does not have; all, or the one asked for.
planCommitPushes(p) ==
    LET line == [i \in 1..(at[Root] - published[Root]) |-> published[Root] + i]
    IN  CASE upstream[Root] /\ p.mode = "OneByOne" /\ at[Root] > published[Root] -> [p EXCEPT !.own = line]
          [] upstream[Root] /\ p.mode # "OneByOne" /\ p.upTo > published[Root] /\ p.upTo <= at[Root] -> [p EXCEPT !.own = <<p.upTo>>]
          [] OTHER -> Refuse(p)   \* explainCommitNotPushable()

Answered(p, x) ==
    LET r == x.repo
    IN  CASE x.q = "gitlinks" ->
               LET tree == made[r][Resolve(r, x.commit)]
               IN  Asks(p, {Query("unpublished", s, tree[s]) : s \in {k \in Children(r) : tree[k] # 0}})
          [] x.q = "unpublished" -> IF x.commit > published[r] THEN scanSubmodulesForPush(p, r, x.commit) ELSE p
          [] x.q = "onBranch" -> IF onBranch[r] THEN p ELSE Refuse(p)
          [] x.q = "contains" -> IF x.commit <= at[r] THEN p ELSE Refuse(p)
          [] x.q = "branch" -> IF p.mode = "Branch" THEN p
                               ELSE IF onBranch[r] THEN Asks(p, {Query("line", Root, HEAD)}) ELSE Refuse(p)
          [] x.q = "line" -> planCommitPushes(p)

\* Read as an answer: no gitlinks where the tree is not listed, published where
\* the commit is not found.  A plain push goes on without its branch's name.
AnsweredBlind(p, x) ==
    IF x.q \in {"gitlinks", "unpublished"} \/ (x.q = "branch" /\ p.mode = "Branch")
    THEN [p EXCEPT !.blind = @ \/ x.q # "branch"]
    ELSE Refuse(p)

AnswerQuery(x, ok) ==
    /\ push.stage = "plan"
    /\ x \in push.asked
    /\ LET p == [push EXCEPT !.asked = @ \ {x}]
       IN  IF ok THEN push' = Answered(p, x) /\ UNCHANGED failures
                 ELSE /\ failures < MaxFailures
                      /\ failures' = failures + 1
                      /\ push' = AnsweredBlind(p, x)
    /\ UNCHANGED <<clones, writing, locked, pushes, outside>>

BranchStep(r) == [repo |-> r, commit |-> HEAD]

\* Mutant of appendPushSteps: a submodule before what is nested in it.
appendPushStepsDownwards(nodes) ==
    LET steps[r \in Repos] ==
            (IF r \in nodes THEN <<BranchStep(r)>> ELSE <<>>)
              \o FlattenSeq([i \in 1..Len(ChildSeq(r)) |-> steps[ChildSeq(r)[i]]])
    IN  steps[Root]

\* Children before their parent.
appendPushSteps(nodes) ==
    LET steps[r \in Repos] ==
            FlattenSeq([i \in 1..Len(ChildSeq(r)) |-> steps[ChildSeq(r)[i]]])
              \o (IF r \in nodes THEN <<BranchStep(r)>> ELSE <<>>)
    IN  steps[Root]

plannedSteps ==
    appendPushSteps(push.nodes)
      \o IF push.mode = "Branch" THEN <<BranchStep(Root)>>
         ELSE [i \in 1..Len(push.own) |-> [repo |-> Root, commit |-> push.own[i]]]

PushedSubmodules(steps) == {steps[i].repo : i \in DOMAIN steps} \ {Root}

\* endPush(), and refreshAfterPush() where the window does.
EndPush(ok, refresh) ==
    /\ push' = [push EXCEPT !.stage = "ended", !.asked = {}, !.ok = ok, !.refreshed = refresh]
    /\ locked' = {}

\* Mutant of Planned: a submodule's write in flight is not looked for.
PlannedOverWrites ==
    /\ push.stage = "plan"
    /\ push.asked = {}
    /\ IF push.refused
       THEN EndPush(FALSE, FALSE)
       ELSE /\ locked' = PushedSubmodules(plannedSteps)
            /\ push' = [push EXCEPT !.steps = plannedSteps, !.index = 1,
                                    !.stage = IF push.mode = "Branch" THEN "run" ELSE "confirm"]
    /\ UNCHANGED <<clones, writing, pushes, outside, failures>>

\* The round has ended: lockPushedSubmodules(), and the confirmation a push by commit asks for.
Planned ==
    /\ push.stage = "plan"
    /\ push.asked = {}
    /\ LET steps == plannedSteps
           subs == PushedSubmodules(steps)
       IN  IF push.refused \/ subs \cap writing # {}
           THEN EndPush(FALSE, FALSE)
           ELSE /\ locked' = subs
                /\ push' = [push EXCEPT !.steps = steps, !.index = 1,
                                        !.stage = IF push.mode = "Branch" THEN "run" ELSE "confirm"]
    /\ UNCHANGED <<clones, writing, pushes, outside, failures>>

Confirm(yes) ==
    /\ push.stage = "confirm"
    /\ IF yes THEN push' = [push EXCEPT !.stage = "run"] /\ UNCHANGED locked
              ELSE EndPush(FALSE, FALSE)
    /\ UNCHANGED <<clones, writing, pushes, outside, failures>>

-------------------------------------------------------------------------------
(* The steps.                                                                *)

Step == push.steps[push.index]

\* Commits the push of r up to c would publish, and what they reference that no remote has.
Publishes(r, c) == (published[r] + 1)..c
Dangling(r, c, P) == {s \in Children(r) : \E i \in Publishes(r, c) : made[r][i][s] > P[s]}

\* What git can make of the step: a branch to push, a fast-forward, and at the root the
\* submodules' commits there: `check` refuses, `on-demand` pushes them where it can.
OnDemand ==
    LET S == Dangling(Root, at[Root], published)
    IN  [r \in Repos |-> IF r \in S /\ onBranch[r] /\ upstream[r] /\ at[r] > published[r] THEN at[r] ELSE published[r]]

CanPush ==
    LET r == Step.repo
    IN  /\ upstream[r] \/ push.retry
        /\ Step.commit # HEAD \/ onBranch[r]
        /\ Resolve(r, Step.commit) >= published[r]
        /\ r = Root => Dangling(r, Resolve(r, Step.commit), IF Step.commit = HEAD THEN OnDemand ELSE published) = {}

StepSucceeds ==
    /\ CanPush
    /\ LET r == Step.repo
           others == IF r = Root /\ Step.commit = HEAD THEN OnDemand ELSE published
       IN  published' = [others EXCEPT ![r] = Resolve(r, Step.commit)]
    /\ upstream' = [upstream EXCEPT ![Step.repo] = TRUE]
    /\ IF push.index < Len(push.steps)
       THEN push' = [push EXCEPT !.index = @ + 1, !.retry = FALSE] /\ UNCHANGED locked
       ELSE EndPush(TRUE, TRUE)
    /\ UNCHANGED <<made, at, onBranch, failures>>

\* A one-by-one push published some of this repository's commits.
RefreshesAfterFailure == push.index > 1 /\ push.steps[push.index - 1].repo = Root

\* Mutant of StepFails: the window is left as it was.
StepFailsUnseen ==
    /\ IF CanPush THEN failures < MaxFailures /\ failures' = failures + 1 ELSE UNCHANGED failures
    /\ IF ~push.retry /\ ~upstream[Step.repo]
       THEN push' = [push EXCEPT !.stage = "offer"] /\ UNCHANGED locked
       ELSE EndPush(FALSE, FALSE)
    /\ UNCHANGED clones

\* Where the branch has no upstream the pane offers to set one.
StepFails ==
    /\ IF CanPush THEN failures < MaxFailures /\ failures' = failures + 1 ELSE UNCHANGED failures
    /\ IF ~push.retry /\ ~upstream[Step.repo]
       THEN push' = [push EXCEPT !.stage = "offer"] /\ UNCHANGED locked
       ELSE EndPush(FALSE, RefreshesAfterFailure)
    /\ UNCHANGED clones

RunPushStep ==
    /\ push.stage = "run"
    /\ StepSucceeds \/ StepFails
    /\ UNCHANGED <<writing, pushes, outside>>

offerUpstreamThenRetry(yes) ==
    /\ push.stage = "offer"
    /\ IF yes THEN push' = [push EXCEPT !.stage = "run", !.retry = TRUE] /\ UNCHANGED locked
              ELSE EndPush(FALSE, RefreshesAfterFailure)
    /\ UNCHANGED <<clones, writing, pushes, outside, failures>>

-------------------------------------------------------------------------------
(* The clones: a submodule's own window, or a shell.                         *)

Moves(r) == push' = [push EXCEPT !.moved = @ \cup {r}]

Commits(r) ==
    /\ at[r] = Tip(r) /\ Tip(r) < MaxCommits
    /\ made' = [made EXCEPT ![r] = Append(@, [s \in Children(r) |-> at[s]])]
    /\ at' = [at EXCEPT ![r] = @ + 1]
    /\ Moves(r)
    /\ UNCHANGED <<onBranch, upstream, published>>

CommitOutside(r) ==
    /\ outside < MaxOutside
    /\ outside' = outside + 1
    /\ Commits(r)
    /\ UNCHANGED <<writing, locked, pushes, failures>>

CheckOutOutside(r, i, branch) ==
    /\ outside < MaxOutside
    /\ outside' = outside + 1
    /\ i \in 1..Tip(r)
    /\ <<i, branch>> # <<at[r], onBranch[r]>>
    /\ at' = [at EXCEPT ![r] = i]
    /\ onBranch' = [onBranch EXCEPT ![r] = branch]
    /\ Moves(r)
    /\ UNCHANGED <<made, upstream, published, writing, locked, pushes, failures>>

\* A write of a submodule's window waits for the push lock, and the push for the write.
StartWrite(s) ==
    /\ outside < MaxOutside
    /\ outside' = outside + 1
    /\ s \notin writing \cup locked
    /\ writing' = writing \cup {s}
    /\ UNCHANGED <<clones, locked, push, pushes, failures>>

EndWrite(s) ==
    /\ s \in writing
    /\ writing' = writing \ {s}
    /\ Commits(s) \/ UNCHANGED <<clones, push>>
    /\ UNCHANGED <<locked, pushes, outside, failures>>

-------------------------------------------------------------------------------

\* Every commit the remote has of r references commits the remote of the child has.
Fetchable(r) == \A i \in 1..published[r] : \A s \in Children(r) : made[r][i][s] <= published[s]

Init ==
    /\ \E len \in [Repos -> 1..MaxCommits], records \in [Submodules -> [1..MaxCommits -> 1..MaxCommits]] :
          /\ SumFunction(len) - Cardinality(Repos) <= MaxUnpublished
          /\ \A s \in Submodules, i \in 1..MaxCommits :
                IF i <= len[Parent[s]] THEN records[s][i] <= len[s] ELSE records[s][i] = 1
          /\ made = [r \in Repos |-> [i \in 1..len[r] |-> [s \in Children(r) |-> records[s][i]]]]
    /\ at = [r \in Repos |-> Tip(r)]
    /\ onBranch = [r \in Repos |-> TRUE]
    /\ upstream \in [Repos -> BOOLEAN]
    /\ published = [r \in Repos |-> 1]
    /\ \A r \in Repos : Fetchable(r)
    /\ writing = {}
    /\ locked = {}
    /\ push = NoPush
    /\ pushes = 0 /\ outside = 0 /\ failures = 0

PushActions ==
    \/ \E mode \in Modes \ {"UpTo"} : StartPush(mode, HEAD)
    \/ "UpTo" \in Modes /\ \E c \in 1..Tip(Root) : StartPush("UpTo", c)
    \/ Planned
    \/ \E yes \in BOOLEAN : Confirm(yes) \/ offerUpstreamThenRetry(yes)
    \/ RunPushStep

QueryAnswers == \E x \in push.asked, ok \in BOOLEAN : AnswerQuery(x, ok)

CloneActions ==
    \/ \E r \in Repos : CommitOutside(r)
    \/ \E r \in Repos, i \in 1..MaxCommits, branch \in BOOLEAN : CheckOutOutside(r, i, branch)
    \/ \E s \in Submodules : StartWrite(s) \/ EndWrite(s)

Next == PushActions \/ QueryAnswers \/ CloneActions

Spec == Init /\ [][Next]_vars

-------------------------------------------------------------------------------

TypeOK ==
    /\ \A r \in Repos : /\ Tip(r) \in 1..MaxCommits
                        /\ \A i \in 1..Tip(r) : made[r][i] \in TreeOf(r)
                        /\ {at[r], published[r]} \subseteq 1..Tip(r)
    /\ writing \subseteq Submodules
    /\ locked \subseteq Submodules
    /\ push.stage \in {"none", "plan", "confirm", "run", "offer", "ended"}
    /\ push.index \in 0..Len(push.steps)

\* Where the steps that succeeded have published to.
Pushed == {push.steps[i].repo : i \in {j \in DOMAIN push.steps : j < push.index \/ (push.stage = "ended" /\ push.ok)}}

(***************************************************************************)
(* The commit a step of the push left the remote's branch on, of the       *)
(* repository or of a submodule at any depth, references submodule commits *)
(* a remote has, so that it can be fetched (doc/submodules.md), whether or *)
(* not the later steps succeed.  Not where a query of the plan failed and  *)
(* its silence was taken for an answer, nor where a clone moved after it   *)
(* was planned, nor what git's own backstop pushes.                        *)
(***************************************************************************)
TipsAreFetchable ==
    push.moved = {} /\ ~push.blind =>
        \A r \in Pushed : \A s \in Children(r) : made[r][published[r]][s] <= published[s]

(***************************************************************************)
(* "The submodule steps already pushed what the commits reference"         *)
(* (doc/submodules.md): each commit a step publishes references submodule  *)
(* commits that a remote has by then.                                      *)
(***************************************************************************)
StepsPushWhatIsReferenced ==
    push.stage = "run" /\ push.moved = {} /\ ~push.blind
      => Dangling(Step.repo, Resolve(Step.repo, Step.commit), published) = {}

(***************************************************************************)
(* A push never works in a submodule whose window writes, from the moment  *)
(* its locks are taken to the last step, and holds none when it is over.   *)
(***************************************************************************)
PushExcludesWrites ==
    /\ push.stage \in {"confirm", "run", "offer"} => PushedSubmodules(push.steps) \cap writing = {}
    /\ push.stage \in {"none", "plan", "ended"} => locked = {}

(***************************************************************************)
(* A push up to a commit publishes that commit and leaves the later ones   *)
(* unpublished; a push that published any commit of the repository, even   *)
(* one that failed half way, has the window refreshed.                     *)
(***************************************************************************)
EndsAsAsked ==
    push.stage = "ended" =>
        /\ push.ok /\ push.mode = "UpTo" => published[Root] = push.upTo
        /\ published[Root] # push.before => push.refreshed
================================================================================
