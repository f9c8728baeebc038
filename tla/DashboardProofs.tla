--------------------------- MODULE DashboardProofs ---------------------------
(***************************************************************************)
(* Proofs about Dashboard, for every set of queues and projects, any       *)
(* number of polls in flight, of writes and of upsets.                     *)
(*                                                                         *)
(* What the page shows was asked some time before it lands, and the page   *)
(* may have moved on, mutated or ended since.  PollOf says what a poll in  *)
(* flight still is good for: unless its effect was cancelled, it is of the *)
(* item in the address and brings nothing older than what the page has     *)
(* acknowledged.  OpenedOf and RotatedOf say the same of the form and of   *)
(* the key, which outlive a change of the item.                            *)
(***************************************************************************)
EXTENDS Dashboard, TLAPS

PollRecords == [of : Items \cup {None}, tok : Tokens, ans : Answers]
HookRecords == [data : {None} \cup [of : Items, ver : 0..MaxWrites],
                error : BOOLEAN, loading : BOOLEAN]
OpRecords   == [of : Items, tok : Tokens, here : BOOLEAN, ans : Answers]

Answered(x) == x.ans \notin {None, Refused}

\* Nothing is left of a page once the tab is at the login page or starts anew.
AwayOf ==
    ~OnPage => polls = {} /\ hook = Blank /\ op = None /\ form = None /\ revealed = None

\* A poll whose effect has not been cancelled is of the page's item, and what it brings is
\* no older than the page's acknowledged mutations.
PollOf(p) == p.of # None => p.of = route /\ (Answered(p) => acked[p.of] <= p.ans)

\* No answer is ahead of the server.
ServedOf ==
    /\ \A v \in Items : acked[v] <= version[v]
    /\ op # None /\ Answered(op) => op.ans <= version[op.of]

\* The hook's data outlive a change of the item, not one of the page.
FetchedOf == hook.data # None => OnPage /\ SamePage(hook.data.of, route)

\* A form that was not carried over is of the item that is shown.
OpenedOf ==
    form # None => /\ hook.data # None
                   /\ ~carried => form = route /\ hook.data.of = form

\* A key that is revealed, and one that a rotation under way will reveal, is of the current
\* project until another is chosen.
RotatedOf ==
    /\ revealed # None => revealed = route \/ switched
    /\ op # None /\ op.here /\ op.of \in Projects => op.of = route \/ switched

\* The inductive invariant.
DInv ==
    /\ TypeOK
    /\ AwayOf
    /\ \A p \in polls : PollOf(p)
    /\ ServedOf
    /\ FetchedOf
    /\ ShownIsCurrent
    /\ OpenedOf
    /\ RotatedOf

-----------------------------------------------------------------------------
LEMMA Names ==
    /\ "boot" \notin Items /\ "login" \notin Items /\ None \notin Items
    /\ \A q \in Queues : q \in Items /\ q \notin Projects
    /\ \A p \in Projects : p \in Items /\ p \notin Queues
BY ItemsAssumption DEF Items

LEMMA BlankHook == Blank \in HookRecords /\ Blank.data = None /\ Blank.loading = TRUE
BY DEF Blank, HookRecords

\* What a render does to the form, of a hook whose data are of the page.
LEMMA Rendering ==
    ASSUME DInv, NEW h \in HookRecords, NEW t,
           h.data # None => SamePage(h.data.of, route) /\ OnPage,
           h.data # None /\ h.data # hook.data => h.data.of = route,
           Render(h, t)
    PROVE  /\ form' \in {None} \cup Queues /\ carried' \in BOOLEAN
           /\ form' # None => h.data # None /\ (~carried' => form' = route /\ h.data.of = form')
           /\ ~OnPage => form' = None
<1>1. form' = Rendered(h, t, form)
      /\ carried' = (form' # None /\ (carried \/ (form = None /\ h.data.of # route)))
  BY DEF Render
<1>2. carried \in BOOLEAN /\ form \in {None} \cup Queues
  BY DEF DInv, TypeOK
<1>3. CASE form' = None
  BY <1>1, <1>2, <1>3
<1>4. CASE form' # None /\ form = None
  <2>1. h.data # None /\ route \in Queues /\ form' = h.data.of
    BY <1>1, <1>4 DEF Rendered
  <2>2. h.data.of \in Queues
    BY <2>1, Names DEF SamePage
  <2> QED BY <1>1, <1>2, <1>4, <2>1, <2>2, Names DEF OnPage
<1>5. CASE form' # None /\ form # None
  <2>1. h.data # None /\ route \in Queues /\ form' = form
    BY <1>1, <1>5 DEF Rendered
  <2>2. carried' = carried
    BY <1>1, <1>2, <1>5
  <2>3. ~carried => form = route /\ hook.data # None /\ hook.data.of = form
    BY <1>5 DEF DInv, OpenedOf
  <2>4. ~carried => h.data.of = form
    BY <2>1, <2>3
  <2> QED BY <1>2, <1>5, <2>1, <2>2, <2>3, <2>4, Names DEF OnPage
<1> QED BY <1>3, <1>4, <1>5

\* Requests that an effect leaves behind, and the one it makes.
LEMMA EffectPolls ==
    ASSUME DInv, NEW v \in Items
    PROVE  /\ Run(Abandon(polls), v, hidden) \in SUBSET PollRecords
           /\ \A p \in Run(Abandon(polls), v, hidden) :
                  p.of # None => p.of = v /\ ~Answered(p)
<1>1. polls \in SUBSET PollRecords /\ token \in Tokens
  BY DEF DInv, TypeOK, PollRecords
<1>2. \A p \in Abandon(polls) : p \in PollRecords /\ p.of = None
  <2>1. ASSUME NEW p \in polls PROVE [p EXCEPT !.of = None] \in PollRecords
                                     /\ [p EXCEPT !.of = None].of = None
    BY <1>1 DEF PollRecords
  <2> QED BY <2>1 DEF Abandon
<1>3. PICK n : n = [of |-> v, tok |-> token, ans |-> None]
  OBVIOUS
<1>4. n \in PollRecords /\ n.of = v /\ ~Answered(n)
  BY <1>1, <1>3 DEF PollRecords, Answers, Answered
<1>5. Run(Abandon(polls), v, hidden) \subseteq Abandon(polls) \cup {n}
  BY <1>3 DEF Run
<1> QED BY <1>2, <1>4, <1>5

\* The effect of a page leaves a hook that shows nothing as settled.
LEMMA Effects ==
    ASSUME DInv, NEW v \in Items, NEW h \in HookRecords, Effect(v, h)
    PROVE  /\ polls' \in SUBSET PollRecords
           /\ \A p \in polls' : p.of # None => p.of = v /\ ~Answered(p)
           /\ hook' \in HookRecords /\ hook'.data = h.data /\ hook'.loading
<1>1. hook' = [h EXCEPT !.loading = TRUE] /\ polls' = Run(Abandon(polls), v, hidden)
  BY DEF Effect
<1>2. hook' \in HookRecords /\ hook'.data = h.data /\ hook'.loading
  BY <1>1 DEF HookRecords
<1> QED BY <1>1, <1>2, EffectPolls

\* Nothing of the page is left.
LEMMA Reloaded ==
    ASSUME DInv, NEW to \in {"boot", "login"}, Reload(to), token' \in Tokens,
           UNCHANGED <<version, hidden>>, upsets' \in 0..MaxUpsets
    PROVE  DInv'
<1>1. /\ route' = to /\ hook' = Blank /\ polls' = {} /\ op' = None /\ tab' = "jobs"
      /\ form' = None /\ revealed' = None /\ acked' = [v \in Items |-> 0]
      /\ carried' = FALSE /\ switched' = FALSE
  BY DEF Reload
<1>2. TypeOK'
  <2>1. version \in [Items -> 0..MaxWrites] /\ hidden \in BOOLEAN
    BY DEF DInv, TypeOK
  <2>2. acked' \in [Items -> 0..MaxWrites]
    BY <1>1, BoundsAssumption
  <2> QED BY <1>1, <2>1, <2>2, BlankHook DEF TypeOK, HookRecords
<1>3. AwayOf' /\ FetchedOf' /\ ShownIsCurrent' /\ OpenedOf' /\ RotatedOf'
  BY <1>1, BlankHook DEF AwayOf, FetchedOf, ShownIsCurrent, Shown, OpenedOf, RotatedOf
<1>4. ServedOf'
  <2>1. \A v \in Items : version'[v] >= 0 /\ acked'[v] = 0
    BY <1>1 DEF DInv, TypeOK
  <2> QED BY <1>1, <2>1 DEF ServedOf
<1>5. (\A p \in polls : PollOf(p))'
  BY <1>1
<1> QED BY <1>2, <1>3, <1>4, <1>5 DEF DInv

\* The page of v is mounted; a mutation that is under way was not made with its hook.
LEMMA Entered ==
    ASSUME DInv, NEW v \in Items, Enter(v), UNCHANGED <<version, token, hidden, upsets>>,
           op' \in {None} \cup OpRecords, op' # None => ~op'.here,
           op' # None /\ Answered(op') => op'.ans <= version[op'.of]
    PROVE  DInv'
<1>1. /\ route' = v /\ Effect(v, Blank) /\ tab' = "jobs" /\ form' = None /\ revealed' = None
      /\ acked' = [w \in Items |-> 0] /\ carried' = FALSE /\ switched' = FALSE
  BY DEF Enter
<1>2. /\ polls' \in SUBSET PollRecords
      /\ \A p \in polls' : p.of # None => p.of = v /\ ~Answered(p)
      /\ hook' \in HookRecords /\ hook'.data = None /\ hook'.loading
  BY <1>1, BlankHook, Effects
<1>3. TypeOK'
  <2>1. /\ version \in [Items -> 0..MaxWrites] /\ hidden \in BOOLEAN /\ token \in Tokens
        /\ upsets \in 0..MaxUpsets
    BY DEF DInv, TypeOK
  <2>2. acked' \in [Items -> 0..MaxWrites]
    BY <1>1, BoundsAssumption
  <2> QED BY <1>1, <1>2, <2>1, <2>2 DEF TypeOK, HookRecords, PollRecords, OpRecords
<1>4. AwayOf' /\ FetchedOf' /\ ShownIsCurrent' /\ OpenedOf' /\ RotatedOf'
  BY <1>1, <1>2 DEF AwayOf, OnPage, FetchedOf, ShownIsCurrent, Shown, OpenedOf, RotatedOf
<1>5. ServedOf'
  <2>1. \A w \in Items : version'[w] >= 0 /\ acked'[w] = 0
    BY <1>1 DEF DInv, TypeOK
  <2> QED BY <1>1, <2>1 DEF ServedOf, Answered
<1>6. (\A p \in polls : PollOf(p))'
  BY <1>1, <1>2 DEF PollOf, Answered
<1> QED BY <1>3, <1>4, <1>5, <1>6 DEF DInv

\* A poll of the page is asked, or none is.
LEMMA Asking ==
    ASSUME DInv, NEW b, OnPage, polls' = Run(polls, route, b), hidden' \in BOOLEAN,
           UNCHANGED <<version, token, route, hook, op, acked, page, upsets>>
    PROVE  DInv'
<1>1. PICK n : n = [of |-> route, tok |-> token, ans |-> None]
  OBVIOUS
<1>2. n \in PollRecords /\ ~Answered(n) /\ n.of = route
  BY <1>1 DEF PollRecords, Answered, Answers, OnPage, DInv, TypeOK
<1>3. \A p \in polls' : p \in polls \/ p = n
  BY <1>1 DEF Run
<1>4. polls' \in SUBSET PollRecords
  BY <1>2, <1>3 DEF DInv, TypeOK, PollRecords
<1>5. TypeOK'
  BY <1>4 DEF DInv, TypeOK, page, PollRecords
<1>6. ASSUME NEW p \in polls' PROVE PollOf(p)'
  <2>1. PollOf(p) \/ p = n
    BY <1>3 DEF DInv
  <2> QED BY <1>2, <2>1 DEF PollOf, Answered
<1>7. AwayOf' /\ ServedOf' /\ FetchedOf' /\ ShownIsCurrent' /\ OpenedOf' /\ RotatedOf'
  BY DEF DInv, AwayOf, OnPage, ServedOf, Answered, FetchedOf, ShownIsCurrent, Shown, OpenedOf,
         RotatedOf, page
<1> QED BY <1>5, <1>6, <1>7 DEF DInv

\* Nothing the invariant relates has changed but the token and the counters.
LEMMA Idling ==
    ASSUME DInv, UNCHANGED <<version, route, hook, polls, op, acked, page>>,
           token' \in Tokens, hidden' \in BOOLEAN, upsets' \in 0..MaxUpsets
    PROVE  DInv'
<1>1. TypeOK'
  BY DEF DInv, TypeOK, page
<1>2. AwayOf' /\ ServedOf' /\ FetchedOf' /\ ShownIsCurrent' /\ OpenedOf' /\ RotatedOf'
  BY DEF DInv, AwayOf, OnPage, ServedOf, Answered, FetchedOf, ShownIsCurrent, Shown, OpenedOf,
         RotatedOf, page
<1>3. (\A p \in polls : PollOf(p))'
  BY DEF DInv, PollOf, Answered
<1> QED BY <1>1, <1>2, <1>3 DEF DInv

LEMMA Upsets ==
    ASSUME DInv, Upset
    PROVE  upsets' \in 0..MaxUpsets
BY BoundsAssumption DEF Upset, DInv, TypeOK

LEMMA Sessions ==
    ASSUME DInv, \/ Tick \/ Hide \/ Show \/ BootWithout \/ BootFails \/ Logout \/ UserReloads
                 \/ OtherTab
    PROVE  DInv'
<1>0. token \in Tokens /\ hidden \in BOOLEAN /\ upsets \in 0..MaxUpsets /\ None \in Tokens
  BY DEF DInv, TypeOK, Tokens
<1>1. CASE Tick
  BY <1>0, <1>1, Asking DEF Tick
<1>2. CASE Hide
  BY <1>0, <1>2, Idling DEF Hide
<1>3. CASE Show
  <2>1. CASE OnPage
    BY <1>3, <2>1, Asking DEF Show
  <2>2. CASE ~OnPage
    BY <1>0, <1>3, <2>2, Idling DEF Show
  <2> QED BY <2>1, <2>2
<1>4. CASE BootWithout
  BY <1>0, <1>4, Reloaded DEF BootWithout
<1>5. CASE BootFails
  BY <1>0, <1>5, Upsets, Reloaded DEF BootFails
<1>6. CASE Logout
  BY <1>0, <1>6, Reloaded DEF Logout
<1>7. CASE UserReloads
  BY <1>0, <1>7, Reloaded DEF UserReloads
<1>8. CASE OtherTab
  <2>1. token' \in Tokens
    BY <1>8 DEF OtherTab, Tokens
  <2> QED BY <1>0, <1>8, <2>1, Upsets, Idling DEF OtherTab
<1> QED BY <1>1, <1>2, <1>3, <1>4, <1>5, <1>6, <1>7, <1>8

LEMMA BootsKnown ==
    ASSUME DInv, NEW v \in Items, BootKnown(v)
    PROVE  DInv'
<1>1. op = None /\ op' = None
  BY Names DEF BootKnown, DInv, AwayOf, OnPage
<1> QED BY <1>1, Entered DEF BootKnown

LEMMA LoggingIn ==
    ASSUME DInv, NEW v \in Items, Login(v)
    PROVE  DInv'
<1>1. /\ op = None /\ form = None /\ revealed = None
      /\ UNCHANGED <<version, hidden, op, acked, page, upsets>>
      /\ route' = v /\ hook' = Blank /\ token' = "good"
  BY Names DEF Login, DInv, AwayOf, OnPage
<1>2. PICK n : n = [of |-> v, tok |-> "good", ans |-> None]
  OBVIOUS
<1>3. n \in PollRecords /\ n.of = v /\ ~Answered(n)
  BY <1>2 DEF PollRecords, Answered, Answers, Tokens
<1>4. polls' = {n}
  BY <1>2 DEF Login
<1>5. TypeOK'
  BY <1>1, <1>3, <1>4, BlankHook DEF DInv, TypeOK, page, PollRecords, HookRecords, Tokens
<1>6. AwayOf' /\ ServedOf' /\ FetchedOf' /\ ShownIsCurrent' /\ OpenedOf' /\ RotatedOf'
  BY <1>1, BlankHook DEF DInv, AwayOf, OnPage, ServedOf, Answered, FetchedOf, ShownIsCurrent,
     Shown, OpenedOf, RotatedOf, page
<1>7. (\A p \in polls : PollOf(p))'
  BY <1>1, <1>3, <1>4 DEF PollOf, Answered
<1> QED BY <1>5, <1>6, <1>7 DEF DInv

\* A token that ends turns requests under way into refused ones, and nothing else.
LEMMA Expiring ==
    ASSUME DInv, Expire
    PROVE  DInv'
<1>0. /\ polls \in SUBSET PollRecords /\ op \in {None} \cup OpRecords
      /\ UNCHANGED <<version, route, hidden, hook, acked, page>>
  BY DEF Expire, DInv, TypeOK, PollRecords, OpRecords
<1>1. \A p \in polls' : /\ p \in PollRecords
                        /\ \E o \in polls : p.of = o.of /\ p.ans = o.ans
  <2>1. \A o \in polls : LET p == IF o.tok = "good" /\ o.ans = None THEN [o EXCEPT !.tok = "bad"] ELSE o
                         IN  p \in PollRecords /\ p.of = o.of /\ p.ans = o.ans
    BY <1>0 DEF PollRecords, Tokens
  <2> QED BY <2>1 DEF Expire
<1>2. /\ op' \in {None} \cup OpRecords
      /\ op = None => op' = None
      /\ op' # None => op # None /\ op'.of = op.of /\ op'.here = op.here /\ op'.ans = op.ans
  BY <1>0 DEF Expire, OpRecords, Tokens
<1>3. TypeOK'
  <2>1. polls' \in SUBSET PollRecords /\ token' \in Tokens /\ upsets' \in 0..MaxUpsets
    BY <1>1, Upsets DEF Expire, Tokens
  <2> QED BY <1>0, <1>2, <2>1 DEF DInv, TypeOK, page, PollRecords, OpRecords
<1>4. AwayOf'
  BY <1>0, <1>1, <1>2 DEF DInv, AwayOf, OnPage, page
<1>5. FetchedOf' /\ ShownIsCurrent' /\ OpenedOf'
  BY <1>0 DEF DInv, OnPage, FetchedOf, ShownIsCurrent, Shown, OpenedOf, page
<1>6. ServedOf' /\ RotatedOf'
  BY <1>0, <1>2 DEF DInv, ServedOf, Answered, RotatedOf, page
<1>7. ASSUME NEW p \in polls' PROVE PollOf(p)'
  <2>1. PICK o \in polls : p.of = o.of /\ p.ans = o.ans
    BY <1>1
  <2>2. PollOf(o)
    BY DEF DInv
  <2> QED BY <1>0, <2>1, <2>2 DEF PollOf, Answered
<1> QED BY <1>3, <1>4, <1>5, <1>6, <1>7 DEF DInv

-----------------------------------------------------------------------------
\* The same page goes on with another item: its form is carried over, its key switched.
LEMMA Switching ==
    ASSUME DInv, NEW v \in Items, OnPage, SamePage(v, route), route' = v, Effect(v, hook),
           carried' = (carried \/ form # None),
           switched' = (switched \/ revealed # None \/ (op # None /\ op.of \in Projects)),
           UNCHANGED <<version, token, hidden, upsets, op, acked, tab, form, revealed>>
    PROVE  DInv'
<1>0. /\ hook \in HookRecords /\ carried \in BOOLEAN /\ switched \in BOOLEAN
      /\ op \in {None} \cup OpRecords
  BY DEF DInv, TypeOK, HookRecords, OpRecords
<1>1. /\ polls' \in SUBSET PollRecords
      /\ \A p \in polls' : p.of # None => p.of = v /\ ~Answered(p)
      /\ hook' \in HookRecords /\ hook'.data = hook.data /\ hook'.loading
  BY <1>0, Effects
<1>2. TypeOK'
  BY <1>0, <1>1 DEF DInv, TypeOK, HookRecords, PollRecords, OpRecords
<1>3. AwayOf' /\ ShownIsCurrent'
  BY <1>1 DEF AwayOf, OnPage, ShownIsCurrent, Shown
<1>4. ServedOf'
  BY DEF DInv, ServedOf, Answered
<1>5. FetchedOf'
  <2> SUFFICES ASSUME hook.data # None PROVE SamePage(hook.data.of, v)
    BY <1>1 DEF FetchedOf, OnPage, SamePage
  <2>1. SamePage(hook.data.of, route)
    BY DEF DInv, FetchedOf
  <2> QED BY <2>1, Names DEF SamePage
<1>6. OpenedOf' /\ RotatedOf'
  BY <1>0, <1>1 DEF DInv, OpenedOf, RotatedOf
<1>7. (\A p \in polls : PollOf(p))'
  BY <1>1 DEF PollOf, Answered
<1> QED BY <1>2, <1>3, <1>4, <1>5, <1>6, <1>7 DEF DInv

LEMMA Going ==
    ASSUME DInv, NEW v \in Items, Goto(v)
    PROVE  DInv'
<1>1. CASE SamePage(v, route)
  BY <1>1, Switching DEF Goto
<1>2. CASE ~SamePage(v, route)
  <2>1. op \in {None} \cup OpRecords /\ op' = IF op # None THEN [op EXCEPT !.here = FALSE] ELSE op
    BY <1>2 DEF Goto, DInv, TypeOK, OpRecords
  <2>2. /\ op' \in {None} \cup OpRecords
        /\ op' # None => op # None /\ ~op'.here /\ op'.of = op.of /\ op'.ans = op.ans
    BY <2>1 DEF OpRecords
  <2>3. op' # None /\ Answered(op') => op'.ans <= version[op'.of]
    BY <2>2 DEF DInv, ServedOf, Answered
  <2> QED BY <1>2, <2>2, <2>3, Entered DEF Goto
<1> QED BY <1>1, <1>2

LEMMA Choosing ==
    ASSUME DInv, NEW t \in {"jobs", "settings"}, ChooseTab(t)
    PROVE  DInv'
<1>0. /\ hook \in HookRecords /\ Render(hook, t) /\ tab' = t /\ OnPage
      /\ UNCHANGED <<version, token, route, hidden, hook, polls, op, acked, revealed, switched, upsets>>
  BY Names DEF ChooseTab, DInv, TypeOK, HookRecords, OnPage
<1>1. /\ form' \in {None} \cup Queues /\ carried' \in BOOLEAN
      /\ form' # None => hook.data # None /\ (~carried' => form' = route /\ hook.data.of = form')
  <2>1. hook.data # None => SamePage(hook.data.of, route) /\ OnPage
    BY DEF DInv, FetchedOf
  <2> QED BY <1>0, <2>1, Rendering
<1>2. TypeOK'
  BY <1>0, <1>1 DEF DInv, TypeOK
<1>3. AwayOf' /\ ServedOf' /\ FetchedOf' /\ ShownIsCurrent' /\ OpenedOf' /\ RotatedOf'
  BY <1>0, <1>1 DEF DInv, AwayOf, OnPage, ServedOf, Answered, FetchedOf, ShownIsCurrent, Shown,
     OpenedOf, RotatedOf
<1>4. (\A p \in polls : PollOf(p))'
  BY <1>0 DEF DInv, PollOf, Answered
<1> QED BY <1>2, <1>3, <1>4 DEF DInv

\* A mutation names what is shown, a rotation the current project.
LEMMA Submitting ==
    ASSUME DInv, Submit
    PROVE  DInv'
<1>0. /\ OnPage /\ hook.data # None
      /\ UNCHANGED <<version, token, route, hidden, hook, polls, acked, page, upsets>>
  BY DEF Submit
<1>1. PICK of : op' = [of |-> of, tok |-> token, here |-> TRUE, ans |-> None]
                /\ (of = route \/ (route \in Queues /\ of = hook.data.of))
  BY DEF Submit, AskQueue, AskRotation
<1>2. of \in Items /\ (of \in Projects => of = route)
  <2>1. SamePage(hook.data.of, route)
    BY <1>0 DEF DInv, FetchedOf
  <2> QED BY <1>0, <1>1, <2>1, Names DEF SamePage, OnPage
<1>3. op' \in OpRecords /\ ~Answered(op') /\ op'.of = of
  BY <1>1, <1>2 DEF OpRecords, Answers, Answered, DInv, TypeOK
<1>4. TypeOK'
  BY <1>0, <1>3 DEF DInv, TypeOK, OpRecords, page
<1>5. AwayOf' /\ FetchedOf' /\ ShownIsCurrent' /\ OpenedOf'
  BY <1>0 DEF DInv, AwayOf, OnPage, FetchedOf, ShownIsCurrent, Shown, OpenedOf, page
<1>6. ServedOf' /\ RotatedOf'
  BY <1>0, <1>2, <1>3 DEF DInv, ServedOf, Answered, RotatedOf, page
<1>7. (\A p \in polls : PollOf(p))'
  BY <1>0 DEF DInv, PollOf, Answered
<1> QED BY <1>4, <1>5, <1>6, <1>7 DEF DInv

-----------------------------------------------------------------------------
\* What the server says of an item is as new as anything a page was told of it.
LEMMA Serving ==
    ASSUME DInv, NEW p \in polls, Serve(p)
    PROVE  DInv'
<1>0. /\ p \in PollRecords /\ p.ans = None /\ PollOf(p) /\ OnPage
      /\ UNCHANGED <<version, token, route, hidden, hook, op, acked, page, upsets>>
  BY DEF Serve, DInv, TypeOK, PollRecords, AwayOf
<1>1. ASSUME NEW o \in polls', o \notin polls
      PROVE  /\ o \in PollRecords /\ o.of = p.of
             /\ Answered(o) => o.of # None /\ o.ans = version[o.of]
  <2>1. CASE p.tok # "good"
    <3>1. o = [p EXCEPT !.ans = Refused]
      BY <1>1, <2>1 DEF Serve
    <3> QED BY <1>0, <3>1 DEF PollRecords, Answers, Answered
  <2>2. CASE p.tok = "good" /\ p.of # None
    <3>1. o = [p EXCEPT !.ans = version[p.of]]
      BY <1>1, <2>2 DEF Serve
    <3>2. version[p.of] \in 0..MaxWrites
      BY <1>0, <2>2 DEF PollRecords, DInv, TypeOK
    <3> QED BY <1>0, <2>2, <3>1, <3>2 DEF PollRecords, Answers, Answered
  <2>3. CASE p.tok = "good" /\ p.of = None
    BY <1>1, <2>3 DEF Serve
  <2> QED BY <2>1, <2>2, <2>3
<1>2. polls' \in SUBSET PollRecords
  BY <1>1 DEF DInv, TypeOK, PollRecords
<1>3. TypeOK'
  BY <1>0, <1>2 DEF DInv, TypeOK, PollRecords, page
<1>4. AwayOf' /\ ServedOf' /\ FetchedOf' /\ ShownIsCurrent' /\ OpenedOf' /\ RotatedOf'
  BY <1>0 DEF DInv, AwayOf, OnPage, ServedOf, Answered, FetchedOf, ShownIsCurrent, Shown,
     OpenedOf, RotatedOf, page
<1>5. ASSUME NEW o \in polls' PROVE PollOf(o)'
  <2>1. CASE o \in polls
    BY <1>0, <2>1 DEF DInv, PollOf, Answered
  <2>2. CASE o \notin polls
    <3>1. Answered(o) => acked[o.of] <= o.ans
      BY <1>1, <2>2 DEF DInv, ServedOf, PollRecords
    <3> QED BY <1>0, <1>1, <2>2, <3>1 DEF PollOf, Answered
  <2> QED BY <2>1, <2>2
<1> QED BY <1>3, <1>4, <1>5 DEF DInv

\* A row changes, by the mutation under way or by another user.
LEMMA Writing ==
    ASSUME DInv, NEW v \in Items, CanWrite, version' = [version EXCEPT ![v] = @ + 1],
           op' \in {None} \cup OpRecords, op = None => op' = None,
           op' # None => op # None /\ op'.of = op.of /\ op'.here = op.here,
           op' # None /\ Answered(op') => op'.ans <= version'[op'.of],
           upsets' \in 0..MaxUpsets,
           UNCHANGED <<token, route, hidden, hook, polls, acked, page>>
    PROVE  DInv'
<1>1. \A w \in Items : /\ version[w] \in 0..MaxWrites /\ version'[w] \in 0..MaxWrites
                       /\ version[w] <= version'[w]
  BY BoundsAssumption DEF DInv, TypeOK, CanWrite
<1>2. version' \in [Items -> 0..MaxWrites]
  BY <1>1 DEF DInv, TypeOK
<1>3. TypeOK'
  BY <1>2 DEF DInv, TypeOK, OpRecords, page
<1>4. AwayOf' /\ FetchedOf' /\ ShownIsCurrent' /\ OpenedOf' /\ RotatedOf'
  BY DEF DInv, AwayOf, OnPage, FetchedOf, ShownIsCurrent, Shown, OpenedOf, RotatedOf, page
<1>5. ServedOf'
  <2>1. \A w \in Items : acked[w] \in 0..MaxWrites /\ acked[w] <= version[w]
    BY DEF DInv, TypeOK, ServedOf
  <2>2. \A w \in Items : acked'[w] <= version'[w]
    BY <1>1, <2>1, BoundsAssumption
  <2> QED BY <2>2 DEF ServedOf, Answered
<1>6. (\A p \in polls : PollOf(p))'
  BY DEF DInv, PollOf, Answered
<1> QED BY <1>3, <1>4, <1>5, <1>6 DEF DInv

LEMMA ServingOp ==
    ASSUME DInv, ServeOp
    PROVE  DInv'
<1>0. op \in OpRecords /\ op # None /\ upsets' \in 0..MaxUpsets
      /\ UNCHANGED <<token, route, hidden, hook, polls, acked, page, upsets>>
  BY DEF ServeOp, DInv, TypeOK, OpRecords
<1>1. CASE op' = [op EXCEPT !.ans = Refused] /\ UNCHANGED version
  <2>1. op' \in OpRecords /\ op'.of = op.of /\ op'.here = op.here /\ ~Answered(op')
    BY <1>0, <1>1 DEF OpRecords, Answers, Answered
  <2>2. TypeOK'
    BY <1>0, <1>1, <2>1 DEF DInv, TypeOK, OpRecords, page
  <2>3. AwayOf' /\ FetchedOf' /\ ShownIsCurrent' /\ OpenedOf'
    BY <1>0 DEF DInv, AwayOf, OnPage, FetchedOf, ShownIsCurrent, Shown, OpenedOf, page
  <2>4. ServedOf' /\ RotatedOf'
    BY <1>0, <1>1, <2>1 DEF DInv, ServedOf, Answered, RotatedOf, page
  <2>5. (\A p \in polls : PollOf(p))'
    BY <1>0 DEF DInv, PollOf, Answered
  <2> QED BY <2>2, <2>3, <2>4, <2>5 DEF DInv
<1>2. CASE /\ CanWrite /\ version' = [version EXCEPT ![op.of] = @ + 1]
           /\ op' = [op EXCEPT !.ans = version'[op.of]]
  <2>1. op.of \in Items
    BY <1>0 DEF OpRecords
  <2>2. version'[op.of] \in 0..MaxWrites
    BY <1>2, <2>1, BoundsAssumption DEF DInv, TypeOK, CanWrite
  <2>3. op' \in OpRecords /\ op'.of = op.of /\ op'.here = op.here /\ op'.ans = version'[op'.of]
    BY <1>0, <1>2, <2>2 DEF OpRecords, Answers
  <2>4. op'.ans <= version'[op'.of]
    BY <2>2, <2>3
  <2> QED BY <1>0, <1>2, <2>1, <2>3, <2>4, Writing
<1> QED BY <1>1, <1>2 DEF ServeOp

LEMMA OtherWrites ==
    ASSUME DInv, NEW v \in Items, OtherWrite(v)
    PROVE  DInv'
<1>1. op' = op /\ op \in {None} \cup OpRecords /\ upsets' \in 0..MaxUpsets
      /\ version' = [version EXCEPT ![v] = @ + 1] /\ CanWrite
  BY Upsets DEF OtherWrite, DInv, TypeOK, OpRecords
<1>2. ASSUME op' # None, Answered(op') PROVE op'.ans <= version'[op'.of]
  <2>1. op \in OpRecords /\ op.ans \in 0..MaxWrites /\ op.ans <= version[op.of]
    BY <1>1, <1>2 DEF DInv, ServedOf, Answered, OpRecords, Answers
  <2>2. version[op.of] \in 0..MaxWrites /\ version'[op.of] \in {version[op.of], version[op.of] + 1}
    BY <1>1, <2>1 DEF DInv, TypeOK, OpRecords
  <2> QED BY <1>1, <2>1, <2>2, BoundsAssumption
<1> QED BY <1>1, <1>2, Writing DEF OtherWrite

-----------------------------------------------------------------------------
\* The answer to a poll leaves the hook's data alone, or brings those of the item shown.
LEMMA Landed ==
    ASSUME DInv, NEW p \in polls, OnPage, polls' = polls \ {p}, hook' \in HookRecords,
           hook'.data # None => SamePage(hook'.data.of, route),
           hook'.data # hook.data => hook'.data.of = route,
           Shown' => hook'.data.of = route /\ hook'.data.ver >= acked[route],
           Render(hook', tab), upsets' \in 0..MaxUpsets,
           UNCHANGED <<version, token, route, hidden, op, acked, tab, revealed, switched>>
    PROVE  DInv'
<1>0. PICK h \in HookRecords : h = hook'
  OBVIOUS
<1>1. /\ form' \in {None} \cup Queues /\ carried' \in BOOLEAN
      /\ form' # None => h.data # None /\ (~carried' => form' = route /\ h.data.of = form')
  <2>1. h.data # None => SamePage(h.data.of, route) /\ OnPage
    BY <1>0
  <2>2. h.data # None /\ h.data # hook.data => h.data.of = route
    BY <1>0
  <2>3. Render(h, tab)
    BY <1>0
  <2> QED BY <2>1, <2>2, <2>3, Rendering
<1>2. TypeOK'
  BY <1>0, <1>1 DEF DInv, TypeOK, HookRecords
<1>3. AwayOf' /\ ServedOf' /\ FetchedOf' /\ ShownIsCurrent' /\ RotatedOf'
  BY DEF DInv, AwayOf, OnPage, ServedOf, Answered, FetchedOf, ShownIsCurrent, RotatedOf
<1>4. OpenedOf'
  BY <1>0, <1>1 DEF OpenedOf
<1>5. (\A o \in polls : PollOf(o))'
  BY DEF DInv, PollOf, Answered
<1> QED BY <1>2, <1>3, <1>4, <1>5 DEF DInv

\* An error keeps the data and stops the page from showing them.
LEMMA Failed ==
    ASSUME DInv, NEW h, h = [hook EXCEPT !.error = TRUE, !.loading = FALSE]
    PROVE  h \in HookRecords /\ h.data = hook.data /\ h.error
BY DEF DInv, TypeOK, HookRecords

LEMMA LandingPoll ==
    ASSUME DInv, NEW p \in polls, LandPoll(p)
    PROVE  DInv'
<1>0. /\ p \in PollRecords /\ PollOf(p) /\ p.ans # None /\ OnPage /\ hook \in HookRecords
      /\ UNCHANGED <<version, hidden, upsets>> /\ upsets \in 0..MaxUpsets /\ None \in Tokens
  BY DEF LandPoll, DInv, TypeOK, PollRecords, HookRecords, AwayOf, Tokens
<1>1. CASE token' = None /\ Reload("login")
  BY <1>0, <1>1, Reloaded
<1>2. CASE /\ polls' = polls \ {p}
           /\ hook' = IF p.of = None THEN hook
                      ELSE IF p.ans = Refused THEN [hook EXCEPT !.error = TRUE, !.loading = FALSE]
                      ELSE [data |-> [of |-> p.of, ver |-> p.ans], error |-> FALSE, loading |-> FALSE]
           /\ Render(hook', tab)
           /\ UNCHANGED <<token, route, op, acked, tab, revealed, switched>>
  <2>0. /\ hook.data # None => SamePage(hook.data.of, route)
        /\ Shown => hook.data.of = route /\ hook.data.ver >= acked[route]
    BY DEF DInv, FetchedOf, ShownIsCurrent
  <2>1. CASE p.of = None
    BY <1>0, <1>2, <2>0, <2>1, Landed DEF Shown
  <2>2. CASE p.of # None /\ p.ans = Refused
    <3>1. hook' \in HookRecords /\ hook'.data = hook.data /\ hook'.error
      BY <1>2, <2>2, Failed
    <3> QED BY <1>0, <1>2, <2>0, <3>1, Landed DEF Shown
  <2>3. CASE p.of # None /\ p.ans # Refused
    <3>1. PICK d : d = [of |-> p.of, ver |-> p.ans]
      OBVIOUS
    <3>2. hook' = [data |-> d, error |-> FALSE, loading |-> FALSE]
      BY <1>2, <2>3, <3>1
    <3>3. d.of = route /\ d.of \in Items /\ d.ver \in 0..MaxWrites /\ acked[route] <= d.ver
      BY <1>0, <2>3, <3>1 DEF PollOf, Answered, PollRecords, Answers
    <3>4. d \in [of : Items, ver : 0..MaxWrites]
      BY <3>1, <3>3
    <3>5. hook' \in HookRecords /\ hook'.data = d
      BY <3>2, <3>4 DEF HookRecords
    <3>6. SamePage(d.of, route)
      BY <3>3 DEF SamePage, Items
    <3>7. d.ver >= acked[route]
      BY <3>3
    <3> QED BY <1>0, <1>2, <3>3, <3>5, <3>6, <3>7, Landed
  <2> QED BY <2>1, <2>2, <2>3
<1> QED BY <1>1, <1>2 DEF LandPoll

LEMMA LosingPoll ==
    ASSUME DInv, NEW p \in polls, LosePoll(p)
    PROVE  DInv'
<1>0. /\ OnPage /\ hook \in HookRecords /\ upsets' \in 0..MaxUpsets
      /\ polls' = polls \ {p} /\ Render(hook', tab)
      /\ UNCHANGED <<version, token, route, hidden, op, acked, tab, revealed, switched>>
  BY Upsets DEF LosePoll, DInv, TypeOK, HookRecords, AwayOf
<1>1. /\ hook.data # None => SamePage(hook.data.of, route)
      /\ Shown => hook.data.of = route /\ hook.data.ver >= acked[route]
  BY DEF DInv, FetchedOf, ShownIsCurrent
<1>2. CASE hook' = hook
  BY <1>0, <1>1, <1>2, Landed DEF Shown
<1>3. CASE hook' = [hook EXCEPT !.error = TRUE, !.loading = FALSE]
  <2>1. hook' \in HookRecords /\ hook'.data = hook.data /\ hook'.error
    BY <1>3, Failed
  <2> QED BY <1>0, <1>1, <2>1, Landed DEF Shown
<1> QED BY <1>2, <1>3 DEF LosePoll

\* The mutation's answer: the page is asked anew, and remembers what it was told.
LEMMA Refreshed ==
    ASSUME DInv, op # None, op.ans # None, op.ans # Refused, op.here, op' = None, Refresh,
           acked' = [acked EXCEPT ![op.of] = op.ans],
           revealed' = IF op.of \in Projects THEN op.of ELSE revealed,
           UNCHANGED <<version, hidden, upsets, token, route, tab, form, carried, switched>>
    PROVE  DInv'
<1>0. /\ hook \in HookRecords /\ op \in OpRecords /\ OnPage
  BY DEF DInv, TypeOK, HookRecords, OpRecords, AwayOf
<1>1. op.of \in Items /\ op.ans \in 0..MaxWrites /\ op.ans <= version[op.of]
  BY <1>0 DEF OpRecords, Answers, DInv, ServedOf, Answered
<1>2. /\ polls' \in SUBSET PollRecords
      /\ \A p \in polls' : p.of # None => p.of = route /\ ~Answered(p)
      /\ hook' \in HookRecords /\ hook'.data = hook.data /\ hook'.loading
  BY <1>0, Effects DEF Refresh, OnPage
<1>3. TypeOK'
  BY <1>1, <1>2 DEF DInv, TypeOK, HookRecords, PollRecords
<1>4. AwayOf' /\ ShownIsCurrent' /\ FetchedOf' /\ OpenedOf'
  BY <1>0, <1>2 DEF DInv, AwayOf, OnPage, ShownIsCurrent, Shown, FetchedOf, OpenedOf
<1>5. ServedOf'
  BY <1>1 DEF DInv, TypeOK, ServedOf
<1>6. RotatedOf'
  BY DEF DInv, RotatedOf
<1>7. (\A p \in polls : PollOf(p))'
  BY <1>2 DEF PollOf, Answered
<1> QED BY <1>3, <1>4, <1>5, <1>6, <1>7 DEF DInv

\* The mutation is over, and nobody refreshes.
LEMMA Dropped ==
    ASSUME DInv, op' = None, upsets' \in 0..MaxUpsets,
           UNCHANGED <<version, token, route, hidden, hook, polls, acked, page>>
    PROVE  DInv'
<1>1. TypeOK'
  BY DEF DInv, TypeOK, page
<1>2. AwayOf' /\ ServedOf' /\ FetchedOf' /\ ShownIsCurrent' /\ OpenedOf' /\ RotatedOf'
  BY DEF DInv, AwayOf, OnPage, ServedOf, Answered, FetchedOf, ShownIsCurrent, Shown, OpenedOf,
         RotatedOf, page
<1>3. (\A p \in polls : PollOf(p))'
  BY DEF DInv, PollOf, Answered
<1> QED BY <1>1, <1>2, <1>3 DEF DInv

LEMMA LandingOp ==
    ASSUME DInv, LandOp \/ LoseOp
    PROVE  DInv'
<1>0. upsets' \in 0..MaxUpsets /\ None \in Tokens
  BY Upsets DEF LandOp, LoseOp, DInv, TypeOK, Tokens
<1>1. CASE LoseOp
  BY <1>0, <1>1, Dropped DEF LoseOp
<1>2. CASE LandOp
  BY <1>0, <1>2, Reloaded, Refreshed, Dropped DEF LandOp
<1> QED BY <1>1, <1>2

-----------------------------------------------------------------------------
LEMMA DashboardInit == Init => DInv
<1> SUFFICES ASSUME Init PROVE DInv
  OBVIOUS
<1>1. TypeOK
  <2>1. 0 \in 0..MaxWrites /\ 0 \in 0..MaxUpsets
    BY BoundsAssumption
  <2>2. version \in [Items -> 0..MaxWrites] /\ acked \in [Items -> 0..MaxWrites] /\ upsets \in 0..MaxUpsets
    BY <2>1 DEF Init
  <2>3. token \in Tokens /\ route \in {"boot", "login"} \cup Items /\ polls = {} /\ hook = Blank
        /\ op = None /\ tab = "jobs" /\ form = None /\ revealed = None
        /\ carried = FALSE /\ switched = FALSE /\ hidden = FALSE
    BY DEF Init
  <2> QED BY <2>2, <2>3, BlankHook DEF TypeOK, HookRecords
<1>2. AwayOf /\ ServedOf /\ FetchedOf /\ ShownIsCurrent /\ OpenedOf /\ RotatedOf
  BY BlankHook DEF Init, AwayOf, ServedOf, FetchedOf, ShownIsCurrent, Shown, OpenedOf, RotatedOf
<1> QED BY <1>1, <1>2 DEF DInv, Init

LEMMA DashboardStep == DInv /\ [Next]_vars => DInv'
<1> SUFFICES ASSUME DInv, [Next]_vars PROVE DInv'
  OBVIOUS
<1>1. CASE \/ Tick \/ Hide \/ Show \/ BootWithout \/ BootFails \/ Logout \/ UserReloads \/ OtherTab
  BY <1>1, Sessions
<1>2. CASE \E v \in Items : BootKnown(v) \/ Login(v) \/ Goto(v) \/ OtherWrite(v)
  BY <1>2, BootsKnown, LoggingIn, Going, OtherWrites
<1>3. CASE \E t \in {"jobs", "settings"} : ChooseTab(t)
  BY <1>3, Choosing
<1>4. CASE \E p \in polls : Serve(p) \/ LandPoll(p) \/ LosePoll(p)
  BY <1>4, Serving, LandingPoll, LosingPoll
<1>5. CASE Expire \/ Submit \/ ServeOp \/ LandOp \/ LoseOp
  BY <1>5, Expiring, Submitting, ServingOp, LandingOp
<1>6. CASE UNCHANGED vars
  <2>1. token \in Tokens /\ hidden \in BOOLEAN /\ upsets \in 0..MaxUpsets
    BY DEF DInv, TypeOK
  <2> QED BY <1>6, <2>1, Idling DEF vars
<1> QED BY <1>1, <1>2, <1>3, <1>4, <1>5, <1>6 DEF Next

THEOREM DashboardInvariance == Spec => []DInv
BY DashboardInit, DashboardStep, PTL DEF Spec

\* Every reachable state of the tab is well typed.
THEOREM DashboardTypeCorrect == Spec => []TypeOK
<1>1. DInv => TypeOK
  BY DEF DInv
<1> QED BY <1>1, DashboardInvariance, PTL

\* What is shown as settled is of the item in the address and no older than the mutations
\* the page has acknowledged, however polls, answers and navigation interleave: the cleanup
\* of usePoll's effect cancels the polls that could bring something older.
THEOREM ShownCorrect == Spec => []ShownIsCurrent
<1>1. DInv => ShownIsCurrent
  BY DEF DInv
<1> QED BY <1>1, DashboardInvariance, PTL

\* The settings form is of the queue that Save would write, unless it was open while
\* another queue was chosen.
THEOREM FormCorrect == Spec => []FormFitsQueue
<1>1. DInv => FormFitsQueue
  BY DEF DInv, OpenedOf, FormFitsQueue
<1> QED BY <1>1, DashboardInvariance, PTL

\* The key that Projects shows once it has settled is the current project's, unless one
\* was revealed and the project switched.
THEOREM KeyCorrect == Spec => []KeyFitsProject
<1>1. DInv => KeyFitsProject
  BY DEF DInv, RotatedOf, ShownIsCurrent, Shown, KeyFitsProject
<1> QED BY <1>1, DashboardInvariance, PTL
=============================================================================
