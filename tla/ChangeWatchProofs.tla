--------------------------- MODULE ChangeWatchProofs ---------------------------
(***************************************************************************)
(* Theorems of ChangeWatch, for any windows, roots, failures and changes.  *)
(***************************************************************************)
EXTENDS ChangeWatch, TLAPS

Stages == {"none", "waiting", "queued", "ready"}
Subscriptions == [Windows -> Stages]

WatchesTyped(ws) == DOMAIN ws \subseteq Roots /\ \A r \in DOMAIN ws : ws[r] \in Watch

ArmsTyped(as, ws) ==
    /\ DOMAIN as \subseteq Roots \ DOMAIN ws
    /\ \A r \in DOMAIN as : IF as[r].stage = "armed" THEN as[r].watch \in Watch
                            ELSE as[r].stage \in {"asked", "failed"}

\* The parts of TypeOK, each with the steps that touch it.
WatcherTyped ==
    /\ sub \in Subscriptions
    /\ WatchesTyped(watches)
    /\ ArmsTyped(arms, watches)
    /\ querying => arms = <<>>
    /\ {rootsKnown, querying, armAgain, rearming, rootsMissing, trusted, lapsed} \subseteq BOOLEAN

Listened == pending \subseteq Subscribed(sub) /\ timers \subseteq Subscribed(sub)

RefreshTyped == {refreshing, refreshPending} \subseteq BOOLEAN /\ unseen \subseteq Subscribed(sub)

InputTyped ==
    /\ active \in Windows \cup {NoWindow} /\ writing \in Windows \cup {NoWindow}
    /\ failures \in 0..MaxFailures /\ openings \in 0..MaxOpenings

LEMMA TypeParts == TypeOK <=> WatcherTyped /\ Listened /\ RefreshTyped /\ InputTyped
BY DEF TypeOK, WatcherTyped, Listened, RefreshTyped, InputTyped, WatchesTyped, ArmsTyped, Subscriptions, Stages

LEMMA TypePartsNext == TypeOK' <=> WatcherTyped' /\ Listened' /\ RefreshTyped' /\ InputTyped'
BY DEF TypeOK, WatcherTyped, Listened, RefreshTyped, InputTyped, WatchesTyped, ArmsTyped, Subscriptions, Stages

(***************************************************************************)
(* What the windows already told ready() or about to be shows is covered,  *)
(* while the watch is trusted, by watches that miss nothing.               *)
(***************************************************************************)
Served == {w \in Windows : sub[w] \in {"queued", "ready"}}

Covering(ws, w) ==
    \A p \in Roots : Concerns(p, w) => \E r \in DOMAIN ws : p \in Reports(r) /\ ~ws[r].partial

ServedCovered == trusted => \A w \in Served : Covering(watches, w)

--------------------------------------------------------------------------------
(* Functions and the conditions of the watcher. *)

LEMMA RestrictTo ==
    ASSUME NEW f, NEW S
    PROVE  DOMAIN Restrict(f, S) = S /\ \A x \in S : Restrict(f, S)[x] = f[x]
BY DEF Restrict

LEMMA NeededAreRoots ==
    ASSUME NEW s, NEW known
    PROVE  NeededRoots(s, known) \subseteq Roots
BY WatchAssumption DEF NeededRoots, Roots

\* The roots a set of subscriptions needs cover what its windows show.
LEMMA NeededCover ==
    ASSUME NEW s, NEW known, known, NEW w \in Subscribed(s), NEW p \in Roots, Concerns(p, w)
    PROVE  \E r \in NeededRoots(s, known) : p \in Reports(r)
<1>1. CASE Subscribed(s) \cap CommitWindows # {}
  <2>1. NeededRoots(s, known) = Roots \ Covered
    BY <1>1 DEF NeededRoots
  <2>2. Tree \in Roots \ Covered
    BY WatchAssumption DEF Roots
  <2>3. CASE p \in Covered \cup {Tree}
    BY <2>1, <2>2, <2>3 DEF Reports
  <2>4. CASE p \notin Covered \cup {Tree}
    BY <2>1, <2>4 DEF Reports
  <2> QED
    BY <2>3, <2>4
<1>2. CASE Subscribed(s) \cap CommitWindows = {}
  <2>1. NeededRoots(s, known) = StateRoots
    BY <1>2 DEF NeededRoots
  <2>2. p \in StateRoots
    BY <1>2 DEF Concerns
  <2>3. p \in Reports(p)
    BY <2>2, WatchAssumption DEF Reports
  <2> QED
    BY <2>1, <2>2, <2>3
<1> QED
  BY <1>1, <1>2

\* The watch on a root an arm has set up joins the others.
WithArmed(r) == [q \in DOMAIN watches \cup {r} |-> IF q = r THEN arms[r].watch ELSE watches[q]]

LEMMA SettleTyped ==
    ASSUME NEW s \in Subscriptions, NEW known \in BOOLEAN, NEW ws, WatchesTyped(ws),
           {rearming, trusted, lapsed, rootsMissing} \subseteq BOOLEAN, Settle(s, known, ws)
    PROVE  /\ sub' \in Subscriptions /\ WatchesTyped(watches') /\ arms' = <<>>
           /\ ArmsTyped(arms', watches')
           /\ {rearming', rootsMissing', trusted', lapsed'} \subseteq BOOLEAN
           /\ Subscribed(sub') = Subscribed(s)
           /\ pending' \subseteq Subscribed(s) /\ timers' \subseteq Subscribed(s)
<1> DEFINE kept == DOMAIN ws \cap NeededRoots(s, known)
<1>1. watches' = Restrict(ws, kept)
  BY DEF Settle
<1>2. WatchesTyped(watches')
  BY <1>1, RestrictTo DEF WatchesTyped
<1>3. arms' = <<>> /\ DOMAIN <<>> = {}
  BY DEF Settle
<1>4. ArmsTyped(arms', watches')
  BY <1>3 DEF ArmsTyped
<1>5. sub' = [w \in Windows |-> IF s[w] = "waiting" THEN "queued" ELSE s[w]]
  BY DEF Settle
<1>6. sub' \in Subscriptions /\ Subscribed(sub') = Subscribed(s)
  BY <1>5 DEF Subscriptions, Stages, Subscribed
<1>7. {rearming', rootsMissing', trusted', lapsed'} \subseteq BOOLEAN
  BY DEF Settle, Trust, Lapse
<1>8. pending' \subseteq Subscribed(s) /\ timers' \subseteq Subscribed(s)
  BY DEF Settle, MarkPending
<1> QED
  BY <1>2, <1>3, <1>4, <1>6, <1>7, <1>8

LEMMA StartArmsTyped ==
    ASSUME NEW s \in Subscriptions, NEW known \in BOOLEAN, NEW ws, WatchesTyped(ws),
           {rearming, trusted, lapsed, rootsMissing} \subseteq BOOLEAN, StartArms(s, Missing(s, known, ws), ws)
    PROVE  /\ sub' \in Subscriptions /\ WatchesTyped(watches')
           /\ ArmsTyped(arms', watches')
           /\ {rearming', rootsMissing', trusted', lapsed'} \subseteq BOOLEAN
           /\ Subscribed(sub') = Subscribed(s)
           /\ pending' \subseteq Subscribed(s) /\ timers' \subseteq Subscribed(s)
<1>1. sub' = s /\ watches' = ws /\ arms' = [r \in Missing(s, known, ws) |-> [stage |-> "asked"]]
  BY DEF StartArms
<1>2. Missing(s, known, ws) \subseteq Roots \ DOMAIN ws
  BY NeededAreRoots DEF Missing
<1>3. ArmsTyped(arms', watches')
  BY <1>1, <1>2 DEF ArmsTyped
<1>4. {rearming', rootsMissing', trusted', lapsed'} \subseteq BOOLEAN
  BY DEF StartArms
<1>5. pending' \subseteq Subscribed(s) /\ timers' \subseteq Subscribed(s)
  BY DEF StartArms, MarkPending
<1> QED
  BY <1>1, <1>3, <1>4, <1>5

\* A step of the watcher that ends in one of the two keeps its types.
LEMMA ArmingTyped ==
    ASSUME WatcherTyped, NEW s \in Subscriptions, NEW known \in BOOLEAN, NEW ws, WatchesTyped(ws),
           rootsKnown' = known, querying' = FALSE,
           ArmNeededRoots(s, known, ws) \/ FinishArming(s, known, ws)
    PROVE  WatcherTyped' /\ Listened' /\ Subscribed(sub') = Subscribed(s)
<1>1. Settle(s, known, ws) \/ StartArms(s, Missing(s, known, ws), ws)
  BY DEF ArmNeededRoots, FinishArming
<1>2. armAgain' \in BOOLEAN
  BY DEF ArmNeededRoots, FinishArming, WatcherTyped
<1>3. {rearming, trusted, lapsed, rootsMissing} \subseteq BOOLEAN
  BY DEF WatcherTyped
<1>4. /\ sub' \in Subscriptions /\ WatchesTyped(watches') /\ ArmsTyped(arms', watches')
      /\ {rearming', rootsMissing', trusted', lapsed'} \subseteq BOOLEAN
      /\ Subscribed(sub') = Subscribed(s)
      /\ pending' \subseteq Subscribed(s) /\ timers' \subseteq Subscribed(s)
  BY <1>1, <1>3, SettleTyped, StartArmsTyped
<1>5. rootsKnown' \in BOOLEAN /\ querying' \in BOOLEAN /\ ~querying'
  OBVIOUS
<1> QED
  BY <1>2, <1>4, <1>5 DEF WatcherTyped, Listened, WatchesTyped, ArmsTyped

LEMMA ResubscribeTyped ==
    ASSUME TypeOK, NEW s \in Subscriptions, Resubscribe(s)
    PROVE  WatcherTyped' /\ Listened' /\ Subscribed(sub') = Subscribed(s)
<1>0. WatcherTyped /\ Listened
  BY TypeParts
<1>1. CASE Busy
  <2>1. /\ armAgain' = TRUE /\ sub' = s /\ MarkPending(s, {})
        /\ UNCHANGED <<watches, arms, rearming, rootsMissing, trusted, lapsed, rootsKnown, querying>>
    BY <1>1 DEF Resubscribe
  <2>2. WatcherTyped'
    BY <1>0, <2>1 DEF WatcherTyped, WatchesTyped, ArmsTyped
  <2> QED
    BY <2>1, <2>2 DEF Listened, MarkPending
<1>2. CASE ~Busy
  <2>1. ArmNeededRoots(s, rootsKnown, watches) /\ UNCHANGED <<rootsKnown, querying>>
    BY <1>2 DEF Resubscribe
  <2>2. querying' = FALSE
    BY <1>0, <1>2, <2>1 DEF Busy, WatcherTyped
  <2> QED
    BY <1>0, <2>1, <2>2, ArmingTyped DEF WatcherTyped
<1> QED
  BY <1>1, <1>2

LEMMA ReadEventsTyped ==
    ASSUME TypeOK, NEW read \in SUBSET DOMAIN watches, ReadEvents(read)
    PROVE  /\ WatchesTyped(watches') /\ DOMAIN watches' \subseteq DOMAIN watches
           /\ {rootsMissing', trusted', lapsed'} \subseteq BOOLEAN
           /\ Reported(read) \subseteq Ready
<1>1. watches' = [r \in DOMAIN watches \ Stopped(read) |->
                     IF r \in read THEN [watches[r] EXCEPT !.unread = {}] ELSE watches[r]]
  BY DEF ReadEvents
<1>2. \A r \in DOMAIN watches : r \in Roots /\ watches[r] \in Watch
  BY DEF TypeOK
<1>3. \A x \in Watch : [x EXCEPT !.unread = {}] \in Watch
  BY DEF Watch
<1>4. WatchesTyped(watches') /\ DOMAIN watches' \subseteq DOMAIN watches
  BY <1>1, <1>2, <1>3 DEF WatchesTyped
<1>5. {rootsMissing', trusted', lapsed'} \subseteq BOOLEAN
  BY DEF ReadEvents, TypeOK
<1> QED
  BY <1>4, <1>5 DEF Reported

\* A refresh asked for or a history read.
LEMMA RunTyped ==
    ASSUME TypeOK, NEW p, NEW t, p \subseteq Subscribed(sub), t \subseteq Subscribed(sub),
           \/ RepositoryRefresh(p, t)
           \/ StartRefresh(p, t) /\ refreshPending' \in BOOLEAN
           \/ \E w \in Windows \cup {NoWindow} : Run(w, p, t)
    PROVE  /\ WatchesTyped(watches') /\ DOMAIN watches' \subseteq DOMAIN watches
           /\ {rootsMissing', trusted', lapsed', refreshing', refreshPending'} \subseteq BOOLEAN
           /\ pending' \subseteq Subscribed(sub) /\ timers' \subseteq Subscribed(sub)
           /\ unseen' \subseteq Subscribed(sub)
<1>0. WatchesTyped(watches) /\ RefreshTyped /\ WatcherTyped
  BY TypeParts DEF WatcherTyped
<1>1. ASSUME NEW q, NEW u, q \subseteq Subscribed(sub), u \subseteq Subscribed(sub),
             StartRefresh(q, u), refreshPending' \in BOOLEAN
      PROVE  /\ WatchesTyped(watches') /\ DOMAIN watches' \subseteq DOMAIN watches
             /\ {rootsMissing', trusted', lapsed', refreshing', refreshPending'} \subseteq BOOLEAN
             /\ pending' \subseteq Subscribed(sub) /\ timers' \subseteq Subscribed(sub)
             /\ unseen' \subseteq Subscribed(sub)
  <2>1. ReadEvents(DOMAIN watches) /\ refreshing' = TRUE
    BY <1>1 DEF StartRefresh
  <2>2. /\ WatchesTyped(watches') /\ DOMAIN watches' \subseteq DOMAIN watches
        /\ {rootsMissing', trusted', lapsed'} \subseteq BOOLEAN
        /\ Reported(DOMAIN watches) \subseteq Ready
    BY <2>1, ReadEventsTyped
  <2>3. Ready \subseteq Subscribed(sub)
    BY DEF Ready, Subscribed
  <2>4. pending' \subseteq Subscribed(sub) /\ timers' \subseteq Subscribed(sub) /\ unseen' \subseteq unseen
    BY <1>1, <2>2, <2>3 DEF StartRefresh
  <2> QED
    BY <1>0, <1>1, <2>1, <2>2, <2>4 DEF RefreshTyped
<1>2. ASSUME NEW q, NEW u, q \subseteq Subscribed(sub), u \subseteq Subscribed(sub), RepositoryRefresh(q, u)
      PROVE  /\ WatchesTyped(watches') /\ DOMAIN watches' \subseteq DOMAIN watches
             /\ {rootsMissing', trusted', lapsed', refreshing', refreshPending'} \subseteq BOOLEAN
             /\ pending' \subseteq Subscribed(sub) /\ timers' \subseteq Subscribed(sub)
             /\ unseen' \subseteq Subscribed(sub)
  <2>1. CASE refreshing /\ refreshPending' = TRUE /\ pending' = q /\ timers' = u
             /\ UNCHANGED <<refreshing, unseen, watches, rootsMissing, trusted, lapsed>>
    BY <1>0, <1>2, <2>1 DEF RefreshTyped, WatcherTyped, WatchesTyped
  <2>2. CASE StartRefresh(q, u) /\ refreshPending' = refreshPending
    BY <1>0, <1>1, <1>2, <2>2 DEF RefreshTyped
  <2> QED
    BY <1>2, <2>1, <2>2 DEF RepositoryRefresh
<1>3. CASE \E w \in Windows \cup {NoWindow} : Run(w, p, t)
  <2>0. PICK w \in Windows \cup {NoWindow} : Run(w, p, t)
    BY <1>3
  <2>1. CASE RepositoryRefresh(p \ {w}, t \ {w})
    BY <1>2, <2>1
  <2>2. CASE /\ pending' = p \ {w} /\ timers' = t \ {w} /\ unseen' = unseen \ {w}
             /\ UNCHANGED <<refreshing, refreshPending, watches, rootsMissing, trusted, lapsed>>
    BY <1>0, <2>2 DEF RefreshTyped, WatcherTyped, WatchesTyped
  <2> QED
    BY <2>0, <2>1, <2>2 DEF Run
<1> QED
  BY <1>1, <1>2, <1>3

\* A step that arms nothing.
LEMMA KeepsTyped ==
    ASSUME TypeOK, WatchesTyped(watches'), DOMAIN watches' \subseteq DOMAIN watches,
           arms' = arms, rootsKnown' = rootsKnown, armAgain' = armAgain,
           {rearming', querying', rootsMissing', trusted', lapsed'} \subseteq BOOLEAN,
           querying' => querying \/ arms = <<>>,
           sub' \in Subscriptions
    PROVE  WatcherTyped'
<1>0. WatcherTyped
  BY TypeParts
<1>1. ArmsTyped(arms', watches')
  BY <1>0 DEF WatcherTyped, ArmsTyped
<1>2. {rootsKnown', querying', armAgain', rearming', rootsMissing', trusted', lapsed'} \subseteq BOOLEAN
  BY <1>0 DEF WatcherTyped
<1> QED
  BY <1>0, <1>1, <1>2 DEF WatcherTyped, WatchesTyped, ArmsTyped

--------------------------------------------------------------------------------
(* Type correctness, action by action.  Nothing is asked for or armed      *)
(* while no window is left.                                                *)

Idle == Subscribed(sub) = {} => arms = <<>> /\ ~querying

TypeInv == TypeOK /\ Idle

\* A step that does not touch what is armed.
LEMMA KeepsTypeInv ==
    ASSUME TypeInv, WatchesTyped(watches'), DOMAIN watches' \subseteq DOMAIN watches,
           arms' = arms, rootsKnown' = rootsKnown, armAgain' = armAgain, querying' = querying,
           {rearming', rootsMissing', trusted', lapsed'} \subseteq BOOLEAN,
           sub' \in Subscriptions, Subscribed(sub') = Subscribed(sub),
           Listened', RefreshTyped', InputTyped'
    PROVE  TypeInv'
<1>1. WatcherTyped'
  BY TypeParts, KeepsTyped DEF TypeInv, WatcherTyped
<1>2. TypeOK'
  BY <1>1, TypePartsNext
<1> QED
  BY <1>2 DEF TypeInv, Idle

LEMMA OpenWindowTyped ==
    ASSUME TypeInv, NEW w \in Windows, OpenWindow(w)
    PROVE  TypeInv'
<1> DEFINE opened == [sub EXCEPT ![w] = "waiting"]
<1>0. TypeOK /\ Idle /\ WatcherTyped /\ Listened /\ RefreshTyped /\ InputTyped
  BY TypeParts DEF TypeInv
<1>1. opened \in Subscriptions /\ Subscribed(opened) = Subscribed(sub) \cup {w}
  BY <1>0 DEF WatcherTyped, Subscriptions, Stages, Subscribed
<1>2. InputTyped'
  BY <1>0, WatchAssumption DEF OpenWindow, InputTyped, inputVars
<1>3. unseen' = unseen \cup {w} /\ refreshing' = refreshing /\ refreshPending' = refreshPending
  BY DEF OpenWindow
<1>4. ASSUME WatcherTyped', Listened', Subscribed(sub') = Subscribed(opened)
      PROVE  TypeInv'
  <2>1. RefreshTyped'
    BY <1>0, <1>1, <1>3, <1>4 DEF RefreshTyped
  <2>2. TypeOK'
    BY <1>2, <1>4, <2>1, TypePartsNext
  <2> QED
    BY <1>1, <1>4, <2>2 DEF TypeInv, Idle
<1>5. CASE /\ Subscribed(sub) = {} /\ sub' = opened /\ querying' = TRUE
           /\ UNCHANGED <<rootsKnown, watches, arms, armAgain, rearming, rootsMissing, trusted, lapsed, scheduleVars>>
  <2>1. WatcherTyped'
    BY <1>0, <1>1, <1>5 DEF WatcherTyped, WatchesTyped, ArmsTyped, Idle
  <2>2. Listened'
    BY <1>0, <1>1, <1>5 DEF Listened, scheduleVars
  <2> QED
    BY <1>4, <1>5, <2>1, <2>2
<1>6. CASE Resubscribe(opened)
  BY <1>0, <1>1, <1>4, <1>6, ResubscribeTyped
<1> QED
  BY <1>5, <1>6 DEF OpenWindow

LEMMA CloseWindowTyped ==
    ASSUME TypeInv, NEW w \in Windows, CloseWindow(w)
    PROVE  TypeInv'
<1> DEFINE left == [sub EXCEPT ![w] = "none"]
<1>0. TypeOK /\ WatcherTyped /\ Listened /\ RefreshTyped /\ InputTyped
  BY TypeParts DEF TypeInv
<1>1. left \in Subscriptions /\ Subscribed(left) = Subscribed(sub) \ {w}
  BY <1>0 DEF WatcherTyped, Subscriptions, Stages, Subscribed
<1>2. InputTyped' /\ unseen' = unseen \ {w}
  BY <1>0 DEF CloseWindow, InputTyped, boundVars
<1>3. CASE /\ Subscribed(left) = {}
           /\ sub' = left
           /\ querying' = FALSE /\ rootsKnown' = FALSE
           /\ watches' = <<>> /\ arms' = <<>>
           /\ armAgain' = FALSE /\ rearming' = FALSE /\ rootsMissing' = FALSE /\ trusted' = FALSE
           /\ lapsed' = FALSE
           /\ refreshing' = FALSE /\ refreshPending' = FALSE
           /\ MarkPending(left, {})
  <2>1. WatcherTyped'
    <3>1. DOMAIN watches' = {} /\ DOMAIN arms' = {}
      BY <1>3
    <3>2. WatchesTyped(watches') /\ ArmsTyped(arms', watches')
      BY <3>1 DEF WatchesTyped, ArmsTyped
    <3> QED
      BY <1>1, <1>3, <3>2 DEF WatcherTyped, WatchesTyped, ArmsTyped
  <2>2. Listened'
    BY <1>3 DEF Listened, MarkPending
  <2>3. RefreshTyped'
    BY <1>0, <1>1, <1>2, <1>3 DEF RefreshTyped
  <2>4. TypeOK'
    BY <1>2, <2>1, <2>2, <2>3, TypePartsNext
  <2> QED
    BY <1>3, <2>4 DEF TypeInv, Idle
<1>4. CASE Subscribed(left) # {} /\ Resubscribe(left) /\ UNCHANGED <<refreshing, refreshPending>>
  <2>1. WatcherTyped' /\ Listened' /\ Subscribed(sub') = Subscribed(left)
    BY <1>0, <1>1, <1>4, ResubscribeTyped
  <2>2. RefreshTyped'
    BY <1>0, <1>1, <1>2, <1>4, <2>1 DEF RefreshTyped
  <2>3. TypeOK'
    BY <1>2, <2>1, <2>2, TypePartsNext
  <2> QED
    BY <1>4, <2>1, <2>3 DEF TypeInv, Idle
<1> QED
  BY <1>3, <1>4 DEF CloseWindow

LEMMA SwitchToTyped ==
    ASSUME TypeInv, NEW w \in Windows \cup {NoWindow}, SwitchTo(w)
    PROVE  TypeInv'
<1> DEFINE p == pending \cup {v \in Ready : v = active /\ ~trusted}
<1>0. TypeOK /\ WatcherTyped /\ Listened /\ RefreshTyped /\ InputTyped
  BY TypeParts DEF TypeInv
<1>1. p \subseteq Subscribed(sub) /\ timers \subseteq Subscribed(sub)
  BY <1>0 DEF Listened, Ready, Subscribed
<1>2. InputTyped' /\ UNCHANGED <<sub, rootsKnown, arms, armAgain>>
  BY <1>0 DEF SwitchTo, InputTyped, boundVars, armingVars
<1>3. /\ {rearming', querying'} \subseteq BOOLEAN
      /\ querying' => querying \/ (arms = <<>> /\ Subscribed(sub) # {})
  <2>0. rearming \in BOOLEAN /\ querying \in BOOLEAN
    BY <1>0 DEF WatcherTyped
  <2>1. CASE w \in Ready /\ RearmIfStopped
    <3>1. w \in Subscribed(sub)
      BY <2>1 DEF Ready, Subscribed
    <3>2. CASE ~Busy /\ rearming' = TRUE /\ querying' = TRUE
      BY <3>1, <3>2 DEF Busy
    <3>3. CASE UNCHANGED <<rearming, querying>>
      BY <2>0, <3>3
    <3> QED
      BY <2>1, <3>2, <3>3 DEF RearmIfStopped
  <2>2. CASE UNCHANGED <<rearming, querying>>
    BY <2>0, <2>2
  <2> QED
    BY <2>1, <2>2 DEF SwitchTo
<1>4. /\ WatchesTyped(watches') /\ DOMAIN watches' \subseteq DOMAIN watches
      /\ {rootsMissing', trusted', lapsed', refreshing', refreshPending'} \subseteq BOOLEAN
      /\ pending' \subseteq Subscribed(sub) /\ timers' \subseteq Subscribed(sub)
      /\ unseen' \subseteq Subscribed(sub)
  <2>1. CASE Run(w, p, timers)
    BY <1>0, <1>1, <2>1, RunTyped
  <2>2. CASE pending' = p /\ UNCHANGED <<timers, refreshVars, watches, rootsMissing, trusted, lapsed>>
    BY <1>0, <1>1, <2>2 DEF RefreshTyped, WatcherTyped, WatchesTyped, refreshVars
  <2> QED
    BY <2>1, <2>2 DEF SwitchTo
<1>5. WatcherTyped'
  BY <1>0, <1>2, <1>3, <1>4, KeepsTyped DEF WatcherTyped
<1>6. Listened' /\ RefreshTyped'
  BY <1>2, <1>4 DEF Listened, RefreshTyped
<1>7. TypeOK'
  BY <1>2, <1>5, <1>6, TypePartsNext
<1> QED
  BY <1>2, <1>3, <1>7 DEF TypeInv, Idle

\* The other steps that may start a refresh or read events.
LEMMA RefreshesTyped ==
    ASSUME TypeInv,
           \/ WriteBegins \/ WriteEnds \/ UserRefresh \/ RefreshCompletes
           \/ \E w \in Windows : TimerFires(w) \/ ReadyDelivered(w)
           \/ \E r \in DOMAIN watches : NotifierFires(r)
    PROVE  TypeInv'
<1>0. TypeOK /\ WatcherTyped /\ Listened /\ RefreshTyped /\ InputTyped
  BY TypeParts DEF TypeInv
<1>1. ASSUME UNCHANGED <<rootsKnown, arms, armAgain, rearming, querying>>, InputTyped',
             sub' \in Subscriptions, Subscribed(sub') = Subscribed(sub),
             WatchesTyped(watches'), DOMAIN watches' \subseteq DOMAIN watches,
             {rootsMissing', trusted', lapsed', refreshing', refreshPending'} \subseteq BOOLEAN,
             pending' \subseteq Subscribed(sub), timers' \subseteq Subscribed(sub),
             unseen' \subseteq Subscribed(sub)
      PROVE  TypeInv'
  <2>1. Listened' /\ RefreshTyped'
    BY <1>1 DEF Listened, RefreshTyped
  <2>2. rearming' \in BOOLEAN
    BY <1>0, <1>1 DEF WatcherTyped
  <2> QED
    BY <1>1, <2>1, <2>2, KeepsTypeInv
<1>2. ASSUME WatchesTyped(watches), UNCHANGED <<rootsMissing, trusted, lapsed, watches>>
      PROVE  WatchesTyped(watches') /\ DOMAIN watches' \subseteq DOMAIN watches
             /\ {rootsMissing', trusted', lapsed'} \subseteq BOOLEAN
  BY <1>0, <1>2 DEF WatcherTyped, WatchesTyped
<1>3. WatchesTyped(watches) /\ sub \in Subscriptions
  BY <1>0 DEF WatcherTyped
<1>4. CASE WriteBegins
  <2>1. UNCHANGED <<watcherVars, scheduleVars, refreshVars>> /\ InputTyped'
    BY <1>0, <1>4 DEF WriteBegins, InputTyped, boundVars
  <2> QED
    BY <1>0, <1>1, <1>2, <1>3, <2>1 DEF watcherVars, scheduleVars, refreshVars, Listened, RefreshTyped
<1>5. CASE WriteEnds
  <2> DEFINE t == timers \cup {w \in pending : CanRun(w)}
  <2>1. UNCHANGED <<armingVars, rearming, querying>> /\ InputTyped'
    BY <1>0, <1>5 DEF WriteEnds, InputTyped, boundVars
  <2>2. t \subseteq Subscribed(sub) /\ pending \subseteq Subscribed(sub)
    BY <1>0 DEF Listened
  <2>3. CASE RepositoryRefresh(pending, t)
    <3>1. /\ WatchesTyped(watches') /\ DOMAIN watches' \subseteq DOMAIN watches
          /\ {rootsMissing', trusted', lapsed', refreshing', refreshPending'} \subseteq BOOLEAN
          /\ pending' \subseteq Subscribed(sub) /\ timers' \subseteq Subscribed(sub)
          /\ unseen' \subseteq Subscribed(sub)
      BY <1>0, <2>2, <2>3, RunTyped
    <3> QED
      BY <1>1, <1>3, <2>1, <3>1 DEF armingVars
  <2>4. CASE timers' = t /\ UNCHANGED <<pending, refreshVars, watches, rootsMissing, trusted, lapsed>>
    BY <1>0, <1>1, <1>2, <1>3, <2>1, <2>2, <2>4 DEF armingVars, refreshVars, RefreshTyped
  <2> QED
    BY <1>5, <2>3, <2>4 DEF WriteEnds
<1>6. CASE UserRefresh
  <2>1. UNCHANGED <<armingVars, rearming, querying>> /\ InputTyped' /\ RepositoryRefresh(pending, timers)
    BY <1>0, <1>6 DEF UserRefresh, InputTyped, boundVars, inputVars
  <2>2. pending \subseteq Subscribed(sub) /\ timers \subseteq Subscribed(sub)
    BY <1>0 DEF Listened
  <2>3. /\ WatchesTyped(watches') /\ DOMAIN watches' \subseteq DOMAIN watches
        /\ {rootsMissing', trusted', lapsed', refreshing', refreshPending'} \subseteq BOOLEAN
        /\ pending' \subseteq Subscribed(sub) /\ timers' \subseteq Subscribed(sub)
        /\ unseen' \subseteq Subscribed(sub)
    BY <1>0, <2>1, <2>2, RunTyped
  <2> QED
    BY <1>1, <1>3, <2>1, <2>3 DEF armingVars
<1>7. CASE RefreshCompletes
  <2>1. UNCHANGED <<armingVars, rearming, querying>> /\ InputTyped' /\ refreshPending' = FALSE
    BY <1>0, <1>7 DEF RefreshCompletes, InputTyped, boundVars, inputVars
  <2>2. CASE StartRefresh(pending, timers)
    BY <1>0, <1>1, <1>3, <2>1, <2>2, RunTyped DEF armingVars, Listened
  <2>3. CASE refreshing' = FALSE /\ UNCHANGED <<scheduleVars, unseen, watches, rootsMissing, trusted, lapsed>>
    BY <1>0, <1>1, <1>2, <1>3, <2>1, <2>3 DEF armingVars, scheduleVars, RefreshTyped, Listened
  <2> QED
    BY <1>7, <2>2, <2>3 DEF RefreshCompletes
<1>8. CASE \E w \in Windows : TimerFires(w)
  <2>0. PICK w \in Windows : TimerFires(w)
    BY <1>8
  <2>1. UNCHANGED <<armingVars, rearming, querying>> /\ InputTyped'
    BY <1>0, <2>0 DEF TimerFires, InputTyped, boundVars, inputVars
  <2>2. CASE Run(w, pending, timers)
    BY <1>0, <1>1, <1>3, <2>1, <2>2, RunTyped DEF armingVars, Listened
  <2>3. CASE timers' = timers \ {w} /\ UNCHANGED <<pending, refreshVars, watches, rootsMissing, trusted, lapsed>>
    BY <1>0, <1>1, <1>2, <1>3, <2>1, <2>3 DEF armingVars, refreshVars, RefreshTyped, Listened
  <2> QED
    BY <2>0, <2>2, <2>3 DEF TimerFires
<1>9. CASE \E w \in Windows : ReadyDelivered(w)
  <2>0. PICK w \in Windows : ReadyDelivered(w)
    BY <1>9
  <2>1. /\ UNCHANGED <<rootsKnown, querying, arms, armAgain, rearming>> /\ InputTyped'
        /\ sub[w] = "queued" /\ sub' = [sub EXCEPT ![w] = "ready"] /\ Run(w, pending, timers)
    BY <1>0, <2>0 DEF ReadyDelivered, InputTyped, boundVars, inputVars
  <2>2. sub' \in Subscriptions /\ Subscribed(sub') = Subscribed(sub)
    BY <1>3, <2>1 DEF Subscriptions, Stages, Subscribed
  <2> QED
    BY <1>0, <1>1, <2>1, <2>2, RunTyped DEF Listened
<1>10. CASE \E r \in DOMAIN watches : NotifierFires(r)
  <2>0. PICK r \in DOMAIN watches : NotifierFires(r)
    BY <1>10
  <2>1. /\ UNCHANGED <<armingVars, rearming, querying, refreshVars>> /\ InputTyped'
        /\ ReadEvents({r}) /\ MarkPending(sub, Reported({r}))
    BY <1>0, <2>0 DEF NotifierFires, InputTyped, boundVars, inputVars
  <2>2. pending' \subseteq Subscribed(sub) /\ timers' \subseteq Subscribed(sub)
    BY <2>1 DEF MarkPending
  <2>3. /\ WatchesTyped(watches') /\ DOMAIN watches' \subseteq DOMAIN watches
        /\ {rootsMissing', trusted', lapsed'} \subseteq BOOLEAN
    BY <1>0, <2>0, <2>1, ReadEventsTyped
  <2> QED
    BY <1>0, <1>1, <1>3, <2>1, <2>2, <2>3 DEF armingVars, refreshVars, RefreshTyped
<1> QED
  BY <1>4, <1>5, <1>6, <1>7, <1>8, <1>9, <1>10

LEMMA RootsAnsweredTyped ==
    ASSUME TypeInv, NEW ok \in BOOLEAN, RootsAnswered(ok)
    PROVE  TypeInv'
<1>0. TypeOK /\ Idle /\ WatcherTyped /\ RefreshTyped /\ InputTyped
  BY TypeParts DEF TypeInv
<1>1. /\ querying /\ querying' = FALSE /\ rootsKnown' = ok /\ ArmNeededRoots(sub, ok, watches)
      /\ UNCHANGED <<inputVars, refreshVars, openings>>
      /\ ok \/ failures < MaxFailures
      /\ failures' = IF ok THEN failures ELSE failures + 1
  BY DEF RootsAnswered
<1>2. WatcherTyped' /\ Listened' /\ Subscribed(sub') = Subscribed(sub)
  BY <1>0, <1>1, ArmingTyped DEF WatcherTyped
<1>3. RefreshTyped'
  BY <1>0, <1>1, <1>2 DEF RefreshTyped, refreshVars
<1>4. InputTyped'
  BY <1>0, <1>1, WatchAssumption DEF InputTyped, inputVars
<1>5. TypeOK'
  BY <1>2, <1>3, <1>4, TypePartsNext
<1> QED
  BY <1>0, <1>1, <1>2, <1>5 DEF TypeInv, Idle

LEMMA ArmExecutedTyped ==
    ASSUME TypeInv, NEW r \in DOMAIN arms, ArmExecuted(r)
    PROVE  TypeInv'
<1>0. TypeOK /\ Idle /\ WatcherTyped /\ Listened /\ RefreshTyped /\ InputTyped
  BY TypeParts DEF TypeInv
<1>1. UNCHANGED <<sub, rootsKnown, querying, watches, armAgain, rearming, rootsMissing, trusted, lapsed,
                  scheduleVars, refreshVars, inputVars, openings>>
  BY DEF ArmExecuted
<1>2. arms # <<>> /\ Subscribed(sub) # {} /\ ~querying
  BY <1>0 DEF Idle, WatcherTyped
<1>3. ArmsTyped(arms', watches) /\ failures' \in 0..MaxFailures
  <2>1. ArmsTyped(arms, watches) /\ failures \in 0..MaxFailures
    BY <1>0 DEF WatcherTyped, InputTyped
  <2>2. CASE /\ \E partial \in {FALSE, MayBePartial /\ r = Tree} :
                    arms' = [arms EXCEPT ![r] = [stage |-> "armed",
                                watch |-> [unread |-> {}, stopped |-> FALSE, partial |-> partial]]]
             /\ UNCHANGED failures
    <3>1. PICK partial \in {FALSE, MayBePartial /\ r = Tree} :
                    arms' = [arms EXCEPT ![r] = [stage |-> "armed",
                                watch |-> [unread |-> {}, stopped |-> FALSE, partial |-> partial]]]
      BY <2>2
    <3>2. partial \in BOOLEAN
      OBVIOUS
    <3>3. [unread |-> {}, stopped |-> FALSE, partial |-> partial] \in Watch
      BY <3>2 DEF Watch
    <3> QED
      BY <2>1, <2>2, <3>1, <3>3 DEF ArmsTyped
  <2>3. CASE failures < MaxFailures /\ failures' = failures + 1 /\ arms' = [arms EXCEPT ![r] = [stage |-> "failed"]]
    <3>1. failures' \in 0..MaxFailures
      BY <2>1, <2>3, WatchAssumption
    <3>2. ArmsTyped(arms', watches)
      BY <2>1, <2>3 DEF ArmsTyped
    <3> QED
      BY <3>1, <3>2
  <2> QED
    BY <2>2, <2>3 DEF ArmExecuted
<1>4. WatcherTyped'
  BY <1>0, <1>1, <1>2, <1>3 DEF WatcherTyped, WatchesTyped, ArmsTyped
<1>5. Listened' /\ RefreshTyped'
  BY <1>0, <1>1 DEF Listened, RefreshTyped, scheduleVars, refreshVars
<1>6. InputTyped'
  BY <1>0, <1>1, <1>3 DEF InputTyped, inputVars
<1>7. TypeOK'
  BY <1>4, <1>5, <1>6, TypePartsNext
<1> QED
  BY <1>1, <1>2, <1>7 DEF TypeInv, Idle

\* The watch set up joins those that are there.
LEMMA ArmedTyped ==
    ASSUME WatcherTyped, NEW r \in DOMAIN arms
    PROVE  /\ arms[r].stage = "armed" => WatchesTyped(WithArmed(r))
           /\ WatchesTyped(watches)
BY DEF WatcherTyped, WatchesTyped, ArmsTyped, WithArmed

LEMMA ArmAnsweredTyped ==
    ASSUME TypeInv, NEW r \in DOMAIN arms, ArmAnswered(r)
    PROVE  TypeInv'
<1> DEFINE ws == IF arms[r].stage = "armed" THEN WithArmed(r) ELSE watches
<1>0. TypeOK /\ Idle /\ WatcherTyped /\ Listened /\ RefreshTyped /\ InputTyped
  BY TypeParts DEF TypeInv
<1>1. /\ UNCHANGED <<rootsKnown, querying, refreshVars, inputVars, boundVars>>
      /\ \/ /\ DOMAIN arms # {r}
            /\ arms' = Restrict(arms, DOMAIN arms \ {r}) /\ watches' = ws
            /\ UNCHANGED <<sub, armAgain, rearming, rootsMissing, trusted, lapsed, scheduleVars>>
         \/ DOMAIN arms = {r} /\ FinishArming(sub, rootsKnown, ws)
  BY DEF ArmAnswered, WithArmed
<1>2. arms # <<>> /\ Subscribed(sub) # {} /\ ~querying /\ querying \in BOOLEAN
  BY <1>0 DEF Idle, WatcherTyped
<1>3. WatchesTyped(ws) /\ DOMAIN ws \subseteq DOMAIN watches \cup {r}
  BY <1>0, ArmedTyped DEF WithArmed
<1>4. InputTyped'
  BY <1>0, <1>1 DEF InputTyped, inputVars, boundVars
<1>5. WatcherTyped' /\ Listened' /\ Subscribed(sub') = Subscribed(sub)
  <2>1. CASE /\ arms' = Restrict(arms, DOMAIN arms \ {r}) /\ watches' = ws
             /\ UNCHANGED <<sub, armAgain, rearming, rootsMissing, trusted, lapsed, scheduleVars>>
    <3> HIDE DEF ws
    <3>1. ArmsTyped(arms, watches)
      BY <1>0 DEF WatcherTyped
    <3>2. DOMAIN arms' = DOMAIN arms \ {r} /\ \A q \in DOMAIN arms \ {r} : arms'[q] = arms[q]
      BY <2>1, RestrictTo
    <3>3. ArmsTyped(arms', watches')
      BY <1>3, <2>1, <3>1, <3>2 DEF ArmsTyped
    <3>4. WatcherTyped'
      BY <1>0, <1>1, <1>2, <1>3, <2>1, <3>3 DEF WatcherTyped, WatchesTyped, ArmsTyped
    <3> QED
      BY <1>0, <2>1, <3>4 DEF Listened, scheduleVars
  <2>2. CASE FinishArming(sub, rootsKnown, ws)
    <3> HIDE DEF ws
    <3>1. sub \in Subscriptions /\ rootsKnown \in BOOLEAN
      BY <1>0 DEF WatcherTyped
    <3>2. rootsKnown' = rootsKnown /\ querying' = FALSE
      BY <1>1, <1>2
    <3> QED
      BY <1>0, <1>3, <2>2, <3>1, <3>2, ArmingTyped
  <2> QED
    BY <1>1, <2>1, <2>2
<1>6. RefreshTyped'
  BY <1>0, <1>1, <1>5 DEF RefreshTyped, refreshVars
<1>7. TypeOK'
  BY <1>4, <1>5, <1>6, TypePartsNext
<1> QED
  BY <1>2, <1>5, <1>7 DEF TypeInv, Idle

LEMMA ChangeTyped ==
    ASSUME TypeInv, NEW p \in Roots, Change(p)
    PROVE  TypeInv'
<1> DEFINE Queue(watch) == [watch EXCEPT !.unread = @ \cup {p}]
           Records(r, watch) == p \in Reports(r) /\ ~watch.stopped
<1>0. TypeOK /\ Idle /\ WatcherTyped /\ Listened /\ RefreshTyped /\ InputTyped
  BY TypeParts DEF TypeInv
<1>1. \A x \in Watch : Queue(x) \in Watch
  BY DEF Watch
<1>2. PICK missed : watches' = [r \in DOMAIN watches |->
              IF Records(r, watches[r]) /\ r \notin missed THEN Queue(watches[r]) ELSE watches[r]]
  BY DEF Change
<1>3. arms' = [r \in DOMAIN arms |->
                 IF arms[r].stage = "armed" /\ Records(r, arms[r].watch)
                     THEN [arms[r] EXCEPT !.watch = Queue(@)] ELSE arms[r]]
  BY DEF Change
<1>4. /\ UNCHANGED <<sub, rootsKnown, querying, armAgain, rearming, rootsMissing, trusted, lapsed,
                     scheduleVars, refreshing, refreshPending, inputVars, boundVars>>
      /\ unseen' = unseen \cup {w \in Subscribed(sub) : Concerns(p, w)}
  BY DEF Change
<1> HIDE DEF Queue, Records
<1>5. WatchesTyped(watches') /\ DOMAIN watches' = DOMAIN watches
  BY <1>0, <1>1, <1>2 DEF WatcherTyped, WatchesTyped
<1>6. DOMAIN arms' = DOMAIN arms /\ ArmsTyped(arms', watches')
  <2>1. ASSUME NEW r \in DOMAIN arms
        PROVE  IF arms'[r].stage = "armed" THEN arms'[r].watch \in Watch
               ELSE arms'[r].stage \in {"asked", "failed"}
    <3>1. IF arms[r].stage = "armed" THEN arms[r].watch \in Watch ELSE arms[r].stage \in {"asked", "failed"}
      BY <1>0 DEF WatcherTyped, ArmsTyped
    <3>2. CASE arms[r].stage = "armed" /\ Records(r, arms[r].watch)
      <4>1. arms'[r] = [arms[r] EXCEPT !.watch = Queue(@)]
        BY <1>3, <3>2
      <4>2. arms'[r].stage = "armed" /\ arms'[r].watch \in Watch
        BY <1>1, <3>1, <3>2, <4>1
      <4> QED
        BY <4>2
    <3>3. CASE ~(arms[r].stage = "armed" /\ Records(r, arms[r].watch))
      BY <1>3, <3>1, <3>3
    <3> QED
      BY <3>2, <3>3
  <2> QED
    BY <1>0, <1>3, <1>5, <2>1 DEF WatcherTyped, ArmsTyped
<1>7. querying' => arms' = <<>>
  BY <1>0, <1>3, <1>4 DEF WatcherTyped
<1>8. WatcherTyped'
  BY <1>0, <1>4, <1>5, <1>6, <1>7 DEF WatcherTyped, WatchesTyped, ArmsTyped
<1>9. Listened' /\ RefreshTyped' /\ InputTyped'
  BY <1>0, <1>4 DEF Listened, RefreshTyped, InputTyped, scheduleVars, inputVars, boundVars
<1>10. TypeOK'
  BY <1>8, <1>9, TypePartsNext
<1> QED
  BY <1>0, <1>3, <1>4, <1>10 DEF TypeInv, Idle

LEMMA WatchStopsTyped ==
    ASSUME TypeInv, NEW r \in DOMAIN watches, WatchStops(r)
    PROVE  TypeInv'
<1>0. TypeOK /\ WatcherTyped /\ Listened /\ RefreshTyped /\ InputTyped
  BY TypeParts DEF TypeInv
<1>1. /\ watches' = [watches EXCEPT ![r].stopped = TRUE]
      /\ failures < MaxFailures /\ failures' = failures + 1
      /\ UNCHANGED <<sub, rootsKnown, querying, arms, armAgain, rearming, rootsMissing, trusted, lapsed,
                     scheduleVars, refreshVars, inputVars, openings>>
  BY DEF WatchStops
<1>2. \A x \in Watch : [x EXCEPT !.stopped = TRUE] \in Watch
  BY DEF Watch
<1>3. watches' = [watches EXCEPT ![r] = [watches[r] EXCEPT !.stopped = TRUE]]
  BY <1>1
<1>4. WatchesTyped(watches') /\ DOMAIN watches' = DOMAIN watches
  BY <1>0, <1>2, <1>3 DEF WatcherTyped, WatchesTyped
<1>5. InputTyped'
  BY <1>0, <1>1, WatchAssumption DEF InputTyped, inputVars
<1>6. Listened' /\ RefreshTyped'
  BY <1>0, <1>1 DEF Listened, RefreshTyped, scheduleVars, refreshVars
<1>7. {rearming', rootsMissing', trusted', lapsed'} \subseteq BOOLEAN /\ sub' \in Subscriptions
  BY <1>0, <1>1 DEF WatcherTyped
<1> QED
  BY <1>1, <1>4, <1>5, <1>6, <1>7, KeepsTypeInv

LEMMA InitTyped == Init => TypeInv
<1> SUFFICES ASSUME Init PROVE TypeInv
  OBVIOUS
<1>1. sub \in Subscriptions
  BY DEF Init, Subscriptions, Stages
<1>2. DOMAIN watches = {} /\ DOMAIN arms = {} /\ arms = <<>> /\ ~querying
  BY DEF Init
<1>3. WatcherTyped
  BY <1>1, <1>2 DEF Init, WatcherTyped, WatchesTyped, ArmsTyped
<1>4. Listened /\ RefreshTyped
  BY DEF Init, Listened, RefreshTyped
<1>5. 0 \in 0..MaxFailures /\ 0 \in 0..MaxOpenings
  BY WatchAssumption
<1>6. InputTyped
  BY <1>5 DEF Init, InputTyped
<1>7. TypeOK
  BY <1>3, <1>4, <1>6, TypeParts
<1> QED
  BY <1>2, <1>7 DEF TypeInv, Idle

LEMMA StepTyped == TypeInv /\ [Next]_vars => TypeInv'
<1> SUFFICES ASSUME TypeInv, [Next]_vars PROVE TypeInv'
  OBVIOUS
<1>1. CASE UNCHANGED vars
  <2>1. UNCHANGED <<watcherVars, scheduleVars, refreshVars, inputVars, boundVars>>
    BY <1>1 DEF vars
  <2>2. WatcherTyped' /\ Listened' /\ RefreshTyped' /\ InputTyped'
    BY <2>1, TypeParts DEF TypeInv, WatcherTyped, WatchesTyped, ArmsTyped, Listened, RefreshTyped, InputTyped,
       watcherVars, scheduleVars, refreshVars, inputVars, boundVars
  <2>3. TypeOK'
    BY <2>2, TypePartsNext
  <2> QED
    BY <2>1, <2>3 DEF TypeInv, Idle, watcherVars
<1>2. CASE \E w \in Windows : OpenWindow(w) \/ CloseWindow(w)
  BY <1>2, OpenWindowTyped, CloseWindowTyped
<1>3. CASE \E w \in Windows \cup {NoWindow} : SwitchTo(w)
  BY <1>3, SwitchToTyped
<1>4. CASE \/ WriteBegins \/ WriteEnds \/ UserRefresh \/ RefreshCompletes
           \/ \E w \in Windows : TimerFires(w) \/ ReadyDelivered(w)
           \/ \E r \in DOMAIN watches : NotifierFires(r)
  BY <1>4, RefreshesTyped
<1>5. CASE \E ok \in BOOLEAN : RootsAnswered(ok)
  BY <1>5, RootsAnsweredTyped
<1>6. CASE \E r \in DOMAIN arms : ArmExecuted(r) \/ ArmAnswered(r)
  BY <1>6, ArmExecutedTyped, ArmAnsweredTyped
<1>7. CASE \E r \in DOMAIN watches : WatchStops(r)
  BY <1>7, WatchStopsTyped
<1>8. CASE \E p \in Roots : Change(p)
  BY <1>8, ChangeTyped
<1> QED
  BY <1>1, <1>2, <1>3, <1>4, <1>5, <1>6, <1>7, <1>8 DEF Next

\* The watch's state keeps its types: nothing is armed twice, arms answer
\* only while the roots' query does not run, and only open windows are marked.
THEOREM WatchTypeCorrect == Spec => []TypeOK
<1>1. TypeInv => TypeOK
  BY DEF TypeInv
<1> QED
  BY InitTyped, StepTyped, <1>1, PTL DEF Spec

--------------------------------------------------------------------------------
(* The trusted watch covers the windows it serves. *)

\* `ws` holds the directory watches there are, as they are.
Extends(ws) == \A r \in DOMAIN watches : r \in DOMAIN ws /\ ws[r] = watches[r]

\* The subscriptions `s` serve no window that is not served already.
ServesNoMore(s) == \A w \in Windows : s[w] \in {"queued", "ready"} => sub[w] = s[w]

LEMMA KeepsCover ==
    ASSUME ServedCovered, Served' \subseteq Served, trusted' => trusted,
           trusted' => \A r \in DOMAIN watches : r \in DOMAIN watches' /\ watches'[r].partial = watches[r].partial
    PROVE  ServedCovered'
<1> SUFFICES ASSUME trusted', NEW w \in Served', NEW p \in Roots, Concerns(p, w)
             PROVE  \E r \in DOMAIN watches' : p \in Reports(r) /\ ~watches'[r].partial
  BY DEF ServedCovered, Covering
<1>1. PICK r \in DOMAIN watches : p \in Reports(r) /\ ~watches[r].partial
  BY DEF ServedCovered, Covering
<1> QED
  BY <1>1

LEMMA SettleCovers ==
    ASSUME NEW s \in Subscriptions, NEW known \in BOOLEAN, NEW ws, Settle(s, known, ws)
    PROVE  ServedCovered'
<1> DEFINE kept == Restrict(ws, DOMAIN ws \cap NeededRoots(s, known))
           missing == ~known \/ Missing(s, known, ws) # {}
<1> SUFFICES ASSUME trusted', NEW w \in Served', NEW p \in Roots, Concerns(p, w)
             PROVE  \E r \in DOMAIN watches' : p \in Reports(r) /\ ~watches'[r].partial
  BY DEF ServedCovered, Covering
<1>1. watches' = kept /\ trusted' = Trust(missing, kept)
      /\ sub' = [v \in Windows |-> IF s[v] = "waiting" THEN "queued" ELSE s[v]]
  BY DEF Settle
<1>2. known /\ Missing(s, known, ws) = {} /\ \A r \in DOMAIN watches' : ~watches'[r].partial
  BY <1>1 DEF Trust
<1>3. w \in Subscribed(s)
  BY <1>1 DEF Served, Subscribed
<1>4. PICK r \in NeededRoots(s, known) : p \in Reports(r)
  BY <1>2, <1>3, NeededCover
<1>5. r \in DOMAIN ws
  BY <1>2 DEF Missing
<1>6. r \in DOMAIN watches'
  BY <1>1, <1>5, RestrictTo
<1> QED
  BY <1>2, <1>4, <1>6

LEMMA ArmingCovers ==
    ASSUME ServedCovered, NEW s \in Subscriptions, ServesNoMore(s), NEW known \in BOOLEAN,
           NEW ws, Extends(ws),
           ArmNeededRoots(s, known, ws) \/ FinishArming(s, known, ws)
    PROVE  ServedCovered'
<1>1. Settle(s, known, ws) \/ StartArms(s, Missing(s, known, ws), ws)
  BY DEF ArmNeededRoots, FinishArming
<1>2. CASE Settle(s, known, ws)
  BY <1>2, SettleCovers
<1>3. CASE StartArms(s, Missing(s, known, ws), ws)
  <2>1. sub' = s /\ watches' = ws /\ trusted' = trusted
    BY <1>3 DEF StartArms
  <2>2. Served' \subseteq Served
    BY <2>1 DEF Served, ServesNoMore
  <2> QED
    BY <2>1, <2>2, KeepsCover DEF Extends
<1> QED
  BY <1>1, <1>2, <1>3

LEMMA ResubscribeCovers ==
    ASSUME TypeOK, ServedCovered, NEW s \in Subscriptions, ServesNoMore(s), Resubscribe(s)
    PROVE  ServedCovered'
<1>1. CASE sub' = s /\ UNCHANGED <<watches, trusted>>
  <2>1. Served' \subseteq Served
    BY <1>1 DEF Served, ServesNoMore
  <2> QED
    BY <1>1, <2>1, KeepsCover
<1>2. CASE ArmNeededRoots(s, rootsKnown, watches)
  <2>1. Extends(watches) /\ rootsKnown \in BOOLEAN
    BY DEF Extends, TypeOK
  <2> QED
    BY <1>2, <2>1, ArmingCovers
<1> QED
  BY <1>1, <1>2 DEF Resubscribe

LEMMA ReadEventsCovers ==
    ASSUME TypeOK, ServedCovered, Served' \subseteq Served, NEW read, ReadEvents(read)
    PROVE  ServedCovered'
<1>1. /\ watches' = [r \in DOMAIN watches \ Stopped(read) |->
                        IF r \in read THEN [watches[r] EXCEPT !.unread = {}] ELSE watches[r]]
      /\ trusted' = (trusted /\ Stopped(read) = {})
  BY DEF ReadEvents
<1>2. \A r \in DOMAIN watches : watches[r] \in Watch
  BY DEF TypeOK
<1>3. \A x \in Watch : [x EXCEPT !.unread = {}].partial = x.partial
  BY DEF Watch
<1>4. trusted' => \A r \in DOMAIN watches : r \in DOMAIN watches' /\ watches'[r].partial = watches[r].partial
  BY <1>1, <1>2, <1>3
<1> QED
  BY <1>1, <1>4, KeepsCover

LEMMA RunCovers ==
    ASSUME TypeOK, ServedCovered, Served' \subseteq Served, NEW p, NEW t,
           \/ RepositoryRefresh(p, t)
           \/ StartRefresh(p, t)
           \/ \E w \in Windows \cup {NoWindow} : Run(w, p, t)
    PROVE  ServedCovered'
<1>1. ReadEvents(DOMAIN watches) \/ UNCHANGED <<watches, trusted>>
  BY DEF RepositoryRefresh, StartRefresh, Run
<1> QED
  BY <1>1, ReadEventsCovers, KeepsCover

LEMMA StepCovers == TypeInv /\ ServedCovered /\ [Next]_vars => ServedCovered'
<1> SUFFICES ASSUME TypeInv, ServedCovered, [Next]_vars PROVE ServedCovered'
  OBVIOUS
<1>0. TypeOK /\ WatcherTyped
  BY TypeParts DEF TypeInv
<1>1. ASSUME sub' = sub, UNCHANGED <<watches, trusted>>
      PROVE  ServedCovered'
  BY <1>1, KeepsCover DEF Served
<1>2. ASSUME sub' = sub, NEW p, NEW t,
             \/ RepositoryRefresh(p, t)
             \/ StartRefresh(p, t)
             \/ \E w \in Windows \cup {NoWindow} : Run(w, p, t)
      PROVE  ServedCovered'
  BY <1>0, <1>2, RunCovers DEF Served
<1>3. CASE UNCHANGED vars
  BY <1>1, <1>3 DEF vars, watcherVars
<1>4. CASE \E w \in Windows : OpenWindow(w)
  <2>1. PICK w \in Windows : OpenWindow(w)
    BY <1>4
  <2> DEFINE opened == [sub EXCEPT ![w] = "waiting"]
  <2>2. opened \in Subscriptions /\ ServesNoMore(opened)
    BY <1>0 DEF WatcherTyped, Subscriptions, Stages, ServesNoMore
  <2>3. CASE sub' = opened /\ UNCHANGED <<watches, trusted>>
    <3>1. Served' \subseteq Served
      BY <1>0, <2>3 DEF Served, WatcherTyped, Subscriptions
    <3> QED
      BY <2>3, <3>1, KeepsCover
  <2> QED
    BY <1>0, <2>1, <2>2, <2>3, ResubscribeCovers DEF OpenWindow
<1>5. CASE \E w \in Windows : CloseWindow(w)
  <2>1. PICK w \in Windows : CloseWindow(w)
    BY <1>5
  <2> DEFINE left == [sub EXCEPT ![w] = "none"]
  <2>2. left \in Subscriptions /\ ServesNoMore(left)
    BY <1>0 DEF WatcherTyped, Subscriptions, Stages, ServesNoMore
  <2>3. CASE trusted' = FALSE
    BY <2>3 DEF ServedCovered
  <2> QED
    BY <1>0, <2>1, <2>2, <2>3, ResubscribeCovers DEF CloseWindow
<1>6. CASE \E w \in Windows \cup {NoWindow} : SwitchTo(w)
  <2>1. PICK w \in Windows \cup {NoWindow} : SwitchTo(w)
    BY <1>6
  <2> DEFINE p == pending \cup {v \in Ready : v = active /\ ~trusted}
  <2>2. sub' = sub
    BY <2>1 DEF SwitchTo, armingVars
  <2>3. Run(w, p, timers) \/ UNCHANGED <<watches, trusted>>
    BY <2>1 DEF SwitchTo
  <2> QED
    BY <1>1, <1>2, <2>2, <2>3
<1>7. CASE WriteBegins
  BY <1>1, <1>7 DEF WriteBegins, watcherVars
<1>8. CASE WriteEnds
  <2>1. sub' = sub /\ (\/ RepositoryRefresh(pending, timers \cup {w \in pending : CanRun(w)})
                       \/ UNCHANGED <<watches, trusted>>)
    BY <1>8 DEF WriteEnds, armingVars
  <2> QED
    BY <1>1, <1>2, <2>1
<1>9. CASE UserRefresh
  BY <1>2, <1>9 DEF UserRefresh, armingVars
<1>10. CASE RefreshCompletes
  BY <1>1, <1>2, <1>10 DEF RefreshCompletes, armingVars
<1>11. CASE \E w \in Windows : TimerFires(w)
  BY <1>1, <1>2, <1>11 DEF TimerFires, armingVars
<1>12. CASE \E w \in Windows : ReadyDelivered(w)
  <2>1. PICK w \in Windows : ReadyDelivered(w)
    BY <1>12
  <2>2. Served' \subseteq Served
    BY <1>0, <2>1 DEF ReadyDelivered, Served, WatcherTyped, Subscriptions
  <2>3. Run(w, pending, timers)
    BY <2>1 DEF ReadyDelivered
  <2> QED
    BY <1>0, <2>2, <2>3, RunCovers
<1>13. CASE \E r \in DOMAIN watches : NotifierFires(r)
  <2>1. PICK r \in DOMAIN watches : NotifierFires(r)
    BY <1>13
  <2>2. ReadEvents({r}) /\ sub' = sub
    BY <2>1 DEF NotifierFires, armingVars
  <2> QED
    BY <1>0, <2>2, ReadEventsCovers DEF Served
<1>14. CASE \E ok \in BOOLEAN : RootsAnswered(ok)
  <2>1. PICK ok \in BOOLEAN : RootsAnswered(ok)
    BY <1>14
  <2>2. ArmNeededRoots(sub, ok, watches)
    BY <2>1 DEF RootsAnswered
  <2>3. sub \in Subscriptions /\ ServesNoMore(sub) /\ Extends(watches)
    BY <1>0 DEF WatcherTyped, ServesNoMore, Extends
  <2> QED
    BY <2>2, <2>3, ArmingCovers
<1>15. CASE \E r \in DOMAIN arms : ArmExecuted(r)
  BY <1>1, <1>15 DEF ArmExecuted
<1>16. CASE \E r \in DOMAIN arms : ArmAnswered(r)
  <2>1. PICK r \in DOMAIN arms : ArmAnswered(r)
    BY <1>16
  <2> DEFINE ws == IF arms[r].stage = "armed" THEN WithArmed(r) ELSE watches
  <2>2. /\ sub \in Subscriptions /\ ServesNoMore(sub) /\ Extends(ws) /\ rootsKnown \in BOOLEAN
    BY <1>0 DEF WatcherTyped, ArmsTyped, ServesNoMore, Extends, WithArmed
  <2>3. \/ FinishArming(sub, rootsKnown, ws)
        \/ watches' = ws /\ UNCHANGED <<sub, trusted>>
    BY <2>1 DEF ArmAnswered, WithArmed
  <2> HIDE DEF ws
  <2> QED
    BY <2>2, <2>3, ArmingCovers, KeepsCover DEF Served, Extends
<1>17. CASE \E r \in DOMAIN watches : WatchStops(r)
  <2>1. PICK r \in DOMAIN watches : WatchStops(r)
    BY <1>17
  <2>2. watches' = [watches EXCEPT ![r].stopped = TRUE] /\ UNCHANGED <<sub, trusted>>
    BY <2>1 DEF WatchStops
  <2>3. watches[r] \in Watch
    BY <1>0 DEF TypeOK
  <2>4. \A q \in DOMAIN watches : q \in DOMAIN watches' /\ watches'[q].partial = watches[q].partial
    BY <2>2, <2>3 DEF Watch
  <2> QED
    BY <2>2, <2>4, KeepsCover DEF Served
<1>18. CASE \E p \in Roots : Change(p)
  <2>1. PICK p \in Roots : Change(p)
    BY <1>18
  <2>2. PICK missed : watches' = [r \in DOMAIN watches |->
              IF (p \in Reports(r) /\ ~watches[r].stopped) /\ r \notin missed
                  THEN [watches[r] EXCEPT !.unread = @ \cup {p}] ELSE watches[r]]
    BY <2>1 DEF Change
  <2>3. \A x \in Watch : [x EXCEPT !.unread = @ \cup {p}].partial = x.partial
    BY DEF Watch
  <2>4. \A q \in DOMAIN watches : q \in DOMAIN watches' /\ watches'[q].partial = watches[q].partial
    BY <1>0, <2>2, <2>3 DEF TypeOK
  <2>5. UNCHANGED <<sub, trusted>>
    BY <2>1 DEF Change
  <2> QED
    BY <2>4, <2>5, KeepsCover DEF Served
<1> QED
  BY <1>3, <1>4, <1>5, <1>6, <1>7, <1>8, <1>9, <1>10, <1>11, <1>12, <1>13, <1>14, <1>15, <1>16, <1>17, <1>18
  DEF Next

\* A trusted watch covers every place a ready window shows: through arms that
\* fail, watches that stop, windows that come and go and a partial volume.
THEOREM TrustedWatchCovers == Spec => []TrustCovers
<1>1. Init => ServedCovered
  BY DEF Init, ServedCovered
<1>2. ServedCovered => TrustCovers
  BY DEF ServedCovered, Covering, Served, TrustCovers, Ready
<1> QED
  BY <1>1, <1>2, InitTyped, StepTyped, StepCovers, PTL DEF Spec

--------------------------------------------------------------------------------
(* No change is missed, but for what was lost as `lapsed` says. *)

\* What shows that window `w` will come to show its changes.
Excused(w) ==
    \/ w \in pending
    \/ w \in CommitWindows /\ refreshPending
    \/ \E r \in DOMAIN watches : watches[r].stopped \/ \E p \in watches[r].unread : Concerns(p, w)

\* The inductive invariant.
WatchInv == TypeInv /\ ServedCovered /\ NoMiss

LEMMA NoMissMeans == NoMiss <=> (lapsed \/ \A w \in Ready \cap unseen : ~trusted \/ Excused(w))
BY DEF NoMiss, NeverMisses, Excused

LEMMA NoMissMeansNext == NoMiss' <=> (lapsed' \/ \A w \in Ready' \cap unseen' : ~trusted' \/ Excused(w)')
BY DEF NoMiss, NeverMisses, Excused

\* A step after which what excused a window still does.
LEMMA KeepsNoMiss ==
    ASSUME NoMiss, lapsed => lapsed', Ready' \cap unseen' \subseteq Ready \cap unseen,
           trusted' => trusted,
           \A w \in Ready' \cap unseen' : w \in pending => w \in pending',
           \A w \in Ready' \cap unseen' \cap CommitWindows : refreshPending => refreshPending',
           \A r \in DOMAIN watches :
               /\ r \in DOMAIN watches' /\ (watches[r].stopped => watches'[r].stopped)
               /\ watches[r].unread \subseteq watches'[r].unread
    PROVE  NoMiss'
<1> SUFFICES ASSUME ~lapsed', NEW w \in Ready' \cap unseen', trusted'
             PROVE  Excused(w)'
  BY NoMissMeansNext
<1>1. Excused(w)
  BY NoMissMeans
<1>2. CASE w \in pending \/ (w \in CommitWindows /\ refreshPending)
  BY <1>2 DEF Excused
<1>3. CASE \E r \in DOMAIN watches : watches[r].stopped \/ \E p \in watches[r].unread : Concerns(p, w)
  BY <1>3 DEF Excused
<1> QED
  BY <1>1, <1>2, <1>3 DEF Excused

\* The windows `s` serves are ready already, and nothing more goes unseen by them.
ShowsNoLess(s) == \A w \in Windows : s[w] = "ready" => sub[w] = "ready" /\ (w \in unseen' => w \in unseen)

LEMMA SettleNoMiss ==
    ASSUME TypeInv, NoMiss, NEW s \in Subscriptions, ShowsNoLess(s), NEW known \in BOOLEAN,
           NEW ws, Extends(ws), refreshPending' = refreshPending, Settle(s, known, ws)
    PROVE  NoMiss'
<1> DEFINE kept == Restrict(ws, DOMAIN ws \cap NeededRoots(s, known))
           missing == ~known \/ Missing(s, known, ws) # {}
           trust == Trust(missing, kept)
           told == {w \in Windows : s[w] = "ready"}
<1> SUFFICES ASSUME ~lapsed', NEW w \in Ready' \cap unseen', trusted'
             PROVE  Excused(w)'
  BY NoMissMeansNext
<1>1. /\ watches' = kept /\ trusted' = trust
      /\ lapsed' = (lapsed \/ Lapse(ws, kept, trust, told))
      /\ sub' = [v \in Windows |-> IF s[v] = "waiting" THEN "queued" ELSE s[v]]
      /\ MarkPending(s, IF rearming \/ (trusted /\ ~trust) THEN told ELSE {})
  BY DEF Settle
<1>2. w \in told /\ w \in Ready /\ w \in unseen /\ w \in Subscribed(s)
  BY <1>1 DEF Ready, ShowsNoLess, Subscribed
<1>3. DOMAIN kept = DOMAIN ws \cap NeededRoots(s, known) /\ \A r \in DOMAIN kept : kept[r] = ws[r]
  BY RestrictTo
<1> HIDE DEF kept, missing, trust, told
<1>4. ~lapsed /\ ~Lapse(ws, kept, trust, told) /\ trust
  BY <1>1
<1>5. CASE rearming
  BY <1>1, <1>2, <1>5 DEF MarkPending, Excused
<1>6. CASE ~rearming
  <2>1. trusted
    BY <1>2, <1>4, <1>6 DEF Lapse
  <2>2. Excused(w)
    BY <1>2, <1>4, <2>1, NoMissMeans
  <2>3. CASE w \in pending
    BY <1>1, <1>2, <2>3 DEF MarkPending, Excused
  <2>4. CASE w \in CommitWindows /\ refreshPending
    BY <2>4 DEF Excused
  <2>5. CASE \E r \in DOMAIN watches : watches[r].stopped \/ \E p \in watches[r].unread : Concerns(p, w)
    <3>1. PICK r \in DOMAIN watches : watches[r].stopped \/ \E p \in watches[r].unread : Concerns(p, w)
      BY <2>5
    <3>2. r \in DOMAIN ws /\ ws[r] = watches[r]
      BY DEF Extends
    <3>3. r \in DOMAIN kept
      BY <1>4, <3>1, <3>2 DEF Lapse
    <3> QED
      BY <1>1, <1>3, <3>1, <3>2, <3>3 DEF Excused
  <2> QED
    BY <2>2, <2>3, <2>4, <2>5 DEF Excused
<1> QED
  BY <1>5, <1>6

LEMMA ArmingNoMiss ==
    ASSUME TypeInv, NoMiss, NEW s \in Subscriptions, ShowsNoLess(s), NEW known \in BOOLEAN,
           NEW ws, Extends(ws), refreshPending' = refreshPending,
           ArmNeededRoots(s, known, ws) \/ FinishArming(s, known, ws)
    PROVE  NoMiss'
<1>1. Settle(s, known, ws) \/ StartArms(s, Missing(s, known, ws), ws)
  BY DEF ArmNeededRoots, FinishArming
<1>2. CASE Settle(s, known, ws)
  BY <1>2, SettleNoMiss
<1>3. CASE StartArms(s, Missing(s, known, ws), ws)
  <2>1. sub' = s /\ watches' = ws /\ trusted' = trusted /\ lapsed' = lapsed /\ MarkPending(s, {})
    BY <1>3 DEF StartArms
  <2>2. Ready' \cap unseen' \subseteq Ready \cap unseen
    BY <2>1 DEF Ready, ShowsNoLess
  <2>3. \A w \in Ready' : w \in pending => w \in pending'
    BY <2>1 DEF Ready, MarkPending, Subscribed
  <2> QED
    BY <2>1, <2>2, <2>3, KeepsNoMiss DEF Extends
<1> QED
  BY <1>1, <1>2, <1>3

LEMMA ResubscribeNoMiss ==
    ASSUME TypeInv, NoMiss, NEW s \in Subscriptions, ShowsNoLess(s), Resubscribe(s),
           refreshPending' = refreshPending
    PROVE  NoMiss'
<1>1. CASE sub' = s /\ MarkPending(s, {}) /\ UNCHANGED <<watches, trusted, lapsed>>
  <2>1. Ready' \cap unseen' \subseteq Ready \cap unseen
    BY <1>1 DEF Ready, ShowsNoLess
  <2>2. \A w \in Ready' : w \in pending => w \in pending'
    BY <1>1 DEF Ready, MarkPending, Subscribed
  <2> QED
    BY <1>1, <2>1, <2>2, KeepsNoMiss
<1>2. CASE ArmNeededRoots(s, rootsKnown, watches)
  <2>1. Extends(watches) /\ rootsKnown \in BOOLEAN
    BY DEF Extends, TypeInv, TypeOK
  <2> QED
    BY <1>2, <2>1, ArmingNoMiss
<1> QED
  BY <1>1, <1>2 DEF Resubscribe

\* What readEvents() reads either goes to the windows it concerns or costs
\* the trust.
LEMMA ReadEventsNoMiss ==
    ASSUME TypeInv, NoMiss, NEW read \in SUBSET DOMAIN watches, ReadEvents(read),
           Ready' \cap unseen' \subseteq Ready \cap unseen,
           \A w \in Ready' \cap unseen' : w \in pending \cup Reported(read) => w \in pending',
           \A w \in Ready' \cap unseen' \cap CommitWindows : refreshPending => refreshPending'
    PROVE  NoMiss'
<1> SUFFICES ASSUME ~lapsed', NEW w \in Ready' \cap unseen', trusted'
             PROVE  Excused(w)'
  BY NoMissMeansNext
<1>1. /\ watches' = [r \in DOMAIN watches \ Stopped(read) |->
                        IF r \in read THEN [watches[r] EXCEPT !.unread = {}] ELSE watches[r]]
      /\ trusted' = (trusted /\ Stopped(read) = {}) /\ lapsed' = lapsed
  BY DEF ReadEvents
<1>2. trusted /\ Stopped(read) = {} /\ ~lapsed
  BY <1>1
<1>3. Excused(w)
  BY <1>2, NoMissMeans
<1>4. CASE w \in pending \/ (w \in CommitWindows /\ refreshPending)
  BY <1>4 DEF Excused
<1>5. CASE \E r \in DOMAIN watches : watches[r].stopped \/ \E p \in watches[r].unread : Concerns(p, w)
  <2>1. PICK r \in DOMAIN watches : watches[r].stopped \/ \E p \in watches[r].unread : Concerns(p, w)
    BY <1>5
  <2>2. CASE r \in read
    <3>1. w \in Reported(read)
      BY <1>2, <2>1, <2>2 DEF Stopped, Reported
    <3> QED
      BY <3>1 DEF Excused
  <2>3. CASE r \notin read
    <3>1. r \in DOMAIN watches' /\ watches'[r] = watches[r]
      BY <1>1, <1>2, <2>3
    <3> QED
      BY <2>1, <3>1 DEF Excused
  <2> QED
    BY <2>2, <2>3
<1> QED
  BY <1>3, <1>4, <1>5 DEF Excused

\* A refresh that starts reads the commit windows' changes and leaves the
\* others what was queued for them.
LEMMA StartRefreshNoMiss ==
    ASSUME TypeInv, NoMiss, NEW p, NEW t, StartRefresh(p, t),
           pending \ CommitWindows \subseteq p, Ready' \ CommitWindows \subseteq Ready
    PROVE  NoMiss'
<1>1. /\ ReadEvents(DOMAIN watches) /\ unseen' = unseen \ CommitWindows
      /\ pending' = (p \cup Reported(DOMAIN watches)) \ CommitWindows
  BY DEF StartRefresh
<1>2. Ready' \cap unseen' \subseteq Ready \cap unseen /\ Ready' \cap unseen' \cap CommitWindows = {}
  BY <1>1
<1> QED
  BY <1>1, <1>2, ReadEventsNoMiss

LEMMA RepositoryRefreshNoMiss ==
    ASSUME TypeInv, NoMiss, NEW p, NEW t, RepositoryRefresh(p, t),
           pending \ CommitWindows \subseteq p, Ready' \ CommitWindows \subseteq Ready
    PROVE  NoMiss'
<1>1. CASE StartRefresh(p, t)
  BY <1>1, StartRefreshNoMiss
<1>2. CASE /\ refreshPending' = TRUE /\ pending' = p
           /\ UNCHANGED <<unseen, watches, rootsMissing, trusted, lapsed>>
  <2> SUFFICES ASSUME ~lapsed', NEW w \in Ready' \cap unseen', trusted'
               PROVE  Excused(w)'
    BY NoMissMeansNext
  <2>1. CASE w \in CommitWindows
    BY <1>2, <2>1 DEF Excused
  <2>2. CASE w \notin CommitWindows
    <3>1. Excused(w)
      BY <1>2, <2>2, NoMissMeans
    <3> QED
      BY <1>2, <2>2, <3>1 DEF Excused
  <2> QED
    BY <2>1, <2>2
<1> QED
  BY <1>1, <1>2 DEF RepositoryRefresh

LEMMA RunNoMiss ==
    ASSUME TypeInv, NoMiss, NEW w, NEW p, NEW t, Run(w, p, t),
           pending \subseteq p, Ready' \subseteq Ready \cup {w}
    PROVE  NoMiss'
<1>1. CASE w \in CommitWindows /\ RepositoryRefresh(p \ {w}, t \ {w})
  BY <1>1, RepositoryRefreshNoMiss
<1>2. CASE /\ pending' = p \ {w} /\ unseen' = unseen \ {w}
           /\ UNCHANGED <<refreshPending, watches, trusted, lapsed>>
  <2>1. Ready' \cap unseen' \subseteq Ready \cap unseen
    BY <1>2
  <2>2. \A v \in Ready' \cap unseen' : v \in pending => v \in pending'
    BY <1>2
  <2> QED
    BY <1>2, <2>1, <2>2, KeepsNoMiss
<1> QED
  BY <1>1, <1>2 DEF Run

\* A change in the scope of a served window is queued by a watch that covers
\* it, or hidden by one that stopped.
LEMMA ChangeNoMiss ==
    ASSUME TypeInv, ServedCovered, NoMiss, NEW p \in Roots, Change(p)
    PROVE  NoMiss'
<1> SUFFICES ASSUME ~lapsed', NEW w \in Ready' \cap unseen', trusted'
             PROVE  Excused(w)'
  BY NoMissMeansNext
<1>1. /\ unseen' = unseen \cup {v \in Subscribed(sub) : Concerns(p, v)}
      /\ UNCHANGED <<sub, trusted, lapsed, pending, refreshPending>>
  BY DEF Change, scheduleVars
<1>2. PICK missed \in {{}, {r \in DOMAIN watches : watches[r].partial}} :
          watches' = [r \in DOMAIN watches |->
              IF (p \in Reports(r) /\ ~watches[r].stopped) /\ r \notin missed
                  THEN [watches[r] EXCEPT !.unread = @ \cup {p}] ELSE watches[r]]
  BY DEF Change
<1>3. \A x \in Watch : LET y == [x EXCEPT !.unread = @ \cup {p}]
                       IN y.stopped = x.stopped /\ y.unread = x.unread \cup {p}
  BY DEF Watch
<1>4. \A r \in DOMAIN watches :
          /\ r \in DOMAIN watches' /\ watches'[r].stopped = watches[r].stopped
          /\ watches[r].unread \subseteq watches'[r].unread
          /\ (p \in Reports(r) /\ ~watches[r].stopped /\ r \notin missed) => p \in watches'[r].unread
  BY <1>2, <1>3 DEF TypeInv, TypeOK
<1>5. w \in Ready
  BY <1>1 DEF Ready
<1>6. CASE w \in unseen
  <2>1. Excused(w)
    BY <1>1, <1>5, <1>6, NoMissMeans
  <2> QED
    BY <1>1, <1>4, <2>1 DEF Excused
<1>7. CASE Concerns(p, w)
  <2>1. PICK r \in DOMAIN watches : p \in Reports(r) /\ ~watches[r].partial
    BY <1>1, <1>5, <1>7 DEF ServedCovered, Served, Covering, Ready
  <2>2. r \notin missed
    BY <2>1
  <2> QED
    BY <1>4, <1>7, <2>1, <2>2 DEF Excused
<1> QED
  BY <1>1, <1>6, <1>7

LEMMA StepNoMiss == WatchInv /\ [Next]_vars => NoMiss'
<1> SUFFICES ASSUME TypeInv, ServedCovered, NoMiss, [Next]_vars PROVE NoMiss'
  BY DEF WatchInv
<1>0. TypeOK /\ WatcherTyped
  BY TypeParts DEF TypeInv
<1>1. ASSUME UNCHANGED <<sub, unseen, pending, refreshPending, watches, trusted, lapsed>>
      PROVE  NoMiss'
  BY <1>1, KeepsNoMiss DEF Ready
<1>2. CASE UNCHANGED vars
  BY <1>1, <1>2 DEF vars, watcherVars, scheduleVars, refreshVars
<1>3. CASE \E w \in Windows : OpenWindow(w)
  <2>1. PICK w \in Windows : OpenWindow(w)
    BY <1>3
  <2> DEFINE opened == [sub EXCEPT ![w] = "waiting"]
  <2>2. opened \in Subscriptions /\ ShowsNoLess(opened) /\ refreshPending' = refreshPending
    BY <1>0, <2>1 DEF WatcherTyped, Subscriptions, Stages, ShowsNoLess, OpenWindow
  <2>3. CASE sub' = opened /\ UNCHANGED <<watches, trusted, lapsed, scheduleVars>>
    <3>1. Ready' \cap unseen' \subseteq Ready \cap unseen
      BY <2>2, <2>3 DEF Ready, ShowsNoLess
    <3> QED
      BY <2>2, <2>3, <3>1, KeepsNoMiss DEF scheduleVars
  <2> QED
    BY <2>1, <2>2, <2>3, ResubscribeNoMiss DEF OpenWindow
<1>4. CASE \E w \in Windows : CloseWindow(w)
  <2>1. PICK w \in Windows : CloseWindow(w)
    BY <1>4
  <2> DEFINE left == [sub EXCEPT ![w] = "none"]
  <2>2. left \in Subscriptions /\ ShowsNoLess(left)
    BY <1>0, <2>1 DEF WatcherTyped, Subscriptions, Stages, ShowsNoLess, CloseWindow
  <2>3. CASE trusted' = FALSE
    BY <2>3, NoMissMeansNext
  <2> QED
    BY <2>1, <2>2, <2>3, ResubscribeNoMiss DEF CloseWindow
<1>5. CASE \E w \in Windows \cup {NoWindow} : SwitchTo(w)
  <2>1. PICK w \in Windows \cup {NoWindow} : SwitchTo(w)
    BY <1>5
  <2> DEFINE p == pending \cup {v \in Ready : v = active /\ ~trusted}
  <2>2. sub' = sub
    BY <2>1 DEF SwitchTo, armingVars
  <2>3. CASE Run(w, p, timers)
    BY <2>2, <2>3, RunNoMiss DEF Ready
  <2>4. CASE pending' = p /\ UNCHANGED <<refreshVars, watches, trusted, lapsed>>
    <3>1. \A v \in Ready' \cap unseen' : v \in pending => v \in pending'
      BY <2>4
    <3> QED
      BY <2>2, <2>4, <3>1, KeepsNoMiss DEF refreshVars, Ready
  <2> QED
    BY <2>1, <2>3, <2>4 DEF SwitchTo
<1>6. CASE WriteBegins
  BY <1>1, <1>6 DEF WriteBegins, watcherVars, scheduleVars, refreshVars
<1>7. CASE WriteEnds
  <2> DEFINE t == timers \cup {w \in pending : CanRun(w)}
  <2>1. sub' = sub
    BY <1>7 DEF WriteEnds, armingVars
  <2>2. CASE RepositoryRefresh(pending, t)
    BY <2>1, <2>2, RepositoryRefreshNoMiss DEF Ready
  <2>3. CASE UNCHANGED <<pending, refreshVars, watches, rootsMissing, trusted, lapsed>>
    BY <1>1, <2>1, <2>3 DEF refreshVars
  <2> QED
    BY <1>7, <2>2, <2>3 DEF WriteEnds
<1>8. CASE UserRefresh
  <2>1. sub' = sub /\ RepositoryRefresh(pending, timers)
    BY <1>8 DEF UserRefresh, armingVars
  <2> QED
    BY <2>1, RepositoryRefreshNoMiss DEF Ready
<1>9. CASE RefreshCompletes
  <2>1. sub' = sub
    BY <1>9 DEF RefreshCompletes, armingVars
  <2>2. CASE StartRefresh(pending, timers)
    BY <2>1, <2>2, StartRefreshNoMiss DEF Ready
  <2>3. CASE ~refreshPending /\ UNCHANGED <<scheduleVars, unseen, watches, trusted, lapsed>>
    <3>1. Ready' \cap unseen' = Ready \cap unseen
      BY <2>1, <2>3 DEF Ready
    <3> QED
      BY <2>3, <3>1, KeepsNoMiss DEF scheduleVars
  <2> QED
    BY <1>9, <2>2, <2>3 DEF RefreshCompletes
<1>10. CASE \E w \in Windows : TimerFires(w)
  <2>1. PICK w \in Windows : TimerFires(w)
    BY <1>10
  <2>2. sub' = sub
    BY <2>1 DEF TimerFires, armingVars
  <2>3. CASE Run(w, pending, timers)
    BY <2>2, <2>3, RunNoMiss DEF Ready
  <2>4. CASE UNCHANGED <<pending, refreshVars, watches, rootsMissing, trusted, lapsed>>
    BY <1>1, <2>2, <2>4 DEF refreshVars
  <2> QED
    BY <2>1, <2>3, <2>4 DEF TimerFires
<1>11. CASE \E w \in Windows : ReadyDelivered(w)
  <2>1. PICK w \in Windows : ReadyDelivered(w)
    BY <1>11
  <2>2. Ready' \subseteq Ready \cup {w}
    BY <1>0, <2>1 DEF ReadyDelivered, Ready, WatcherTyped, Subscriptions
  <2>3. Run(w, pending, timers)
    BY <2>1 DEF ReadyDelivered
  <2> QED
    BY <2>2, <2>3, RunNoMiss
<1>12. CASE \E r \in DOMAIN watches : NotifierFires(r)
  <2>1. PICK r \in DOMAIN watches : NotifierFires(r)
    BY <1>12
  <2>2. ReadEvents({r}) /\ MarkPending(sub, Reported({r})) /\ sub' = sub /\ UNCHANGED refreshVars
    BY <2>1 DEF NotifierFires, armingVars
  <2>3. Ready' = Ready /\ Ready \subseteq Subscribed(sub) /\ unseen' = unseen /\ refreshPending' = refreshPending
    BY <2>2 DEF Ready, Subscribed, refreshVars
  <2>4. \A w \in Ready' \cap unseen' : w \in pending \cup Reported({r}) => w \in pending'
    BY <2>2, <2>3 DEF MarkPending
  <2> QED
    BY <2>2, <2>3, <2>4, ReadEventsNoMiss
<1>13. CASE \E ok \in BOOLEAN : RootsAnswered(ok)
  <2>1. PICK ok \in BOOLEAN : RootsAnswered(ok)
    BY <1>13
  <2>2. ArmNeededRoots(sub, ok, watches) /\ UNCHANGED refreshVars
    BY <2>1 DEF RootsAnswered
  <2>3. sub \in Subscriptions /\ ShowsNoLess(sub) /\ Extends(watches) /\ refreshPending' = refreshPending
    BY <1>0, <2>2 DEF WatcherTyped, ShowsNoLess, Extends, refreshVars
  <2> QED
    BY <2>2, <2>3, ArmingNoMiss
<1>14. CASE \E r \in DOMAIN arms : ArmExecuted(r)
  BY <1>1, <1>14 DEF ArmExecuted, scheduleVars, refreshVars
<1>15. CASE \E r \in DOMAIN arms : ArmAnswered(r)
  <2>1. PICK r \in DOMAIN arms : ArmAnswered(r)
    BY <1>15
  <2> DEFINE ws == IF arms[r].stage = "armed" THEN WithArmed(r) ELSE watches
  <2>2. sub \in Subscriptions /\ Extends(ws) /\ rootsKnown \in BOOLEAN
    BY <1>0 DEF WatcherTyped, ArmsTyped, Extends, WithArmed
  <2>3. /\ UNCHANGED refreshVars
        /\ \/ FinishArming(sub, rootsKnown, ws)
           \/ watches' = ws /\ UNCHANGED <<sub, trusted, lapsed, scheduleVars>>
    BY <2>1 DEF ArmAnswered, WithArmed
  <2> HIDE DEF ws
  <2>4. ShowsNoLess(sub) /\ refreshPending' = refreshPending /\ unseen' = unseen
    BY <2>3 DEF ShowsNoLess, refreshVars
  <2>5. CASE FinishArming(sub, rootsKnown, ws)
    BY <2>2, <2>4, <2>5, ArmingNoMiss
  <2>6. CASE watches' = ws /\ UNCHANGED <<sub, trusted, lapsed, scheduleVars>>
    BY <2>2, <2>4, <2>6, KeepsNoMiss DEF Extends, Ready, scheduleVars
  <2> QED
    BY <2>3, <2>5, <2>6
<1>16. CASE \E r \in DOMAIN watches : WatchStops(r)
  <2>1. PICK r \in DOMAIN watches : WatchStops(r)
    BY <1>16
  <2>2. /\ watches' = [watches EXCEPT ![r].stopped = TRUE]
        /\ UNCHANGED <<sub, unseen, pending, refreshPending, trusted, lapsed>>
    BY <2>1 DEF WatchStops, scheduleVars, refreshVars
  <2>3. watches[r] \in Watch
    BY <1>0 DEF TypeOK
  <2>4. \A q \in DOMAIN watches :
            /\ q \in DOMAIN watches' /\ (watches[q].stopped => watches'[q].stopped)
            /\ watches[q].unread \subseteq watches'[q].unread
    BY <2>2, <2>3 DEF Watch
  <2> QED
    BY <2>2, <2>4, KeepsNoMiss DEF Ready
<1>17. CASE \E p \in Roots : Change(p)
  BY <1>17, ChangeNoMiss
<1> QED
  BY <1>2, <1>3, <1>4, <1>5, <1>6, <1>7, <1>8, <1>9, <1>10, <1>11, <1>12, <1>13, <1>14, <1>15, <1>16, <1>17
  DEF Next

\* The watch misses no change: while it is trusted, a ready window that does
\* not show one has its refresh pending or asked for, or finds the change, or
\* the stop that hides it, still to be read; but for the two cases of `lapsed`.
THEOREM NoChangeMissed == Spec => []NoMiss
<1>1. Init => WatchInv
  <2> SUFFICES ASSUME Init PROVE WatchInv
    OBVIOUS
  <2>1. TypeInv
    BY InitTyped
  <2>2. ServedCovered /\ NoMiss
    BY DEF Init, ServedCovered, NoMiss, NeverMisses
  <2> QED
    BY <2>1, <2>2 DEF WatchInv
<1>2. WatchInv /\ [Next]_vars => WatchInv'
  BY StepTyped, StepCovers, StepNoMiss DEF WatchInv
<1>3. WatchInv => NoMiss
  BY DEF WatchInv
<1> QED
  BY <1>1, <1>2, <1>3, PTL DEF Spec

================================================================================
