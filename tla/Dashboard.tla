----------------------------- MODULE Dashboard -----------------------------
(***************************************************************************)
(* One browser tab of the dashboard: the session that App, auth.tsx and    *)
(* client.ts keep, one page at a time with its usePoll hook, the mutations *)
(* that end in refresh(), the settings form of a queue and the API key     *)
(* that Projects reveals.  The server behind the API is a version number   *)
(* per queue and project; another tab shares the stored token.             *)
(***************************************************************************)
EXTENDS Integers, FiniteSets

CONSTANTS
    Queues,     \* what /queues/:queueId may name
    Projects,   \* what the Projects page may have as its current project
    None,
    MaxPolls,   \* bound: requests of the polls in flight at one time
    MaxWrites,  \* bound: once a row has changed this often, none does any more
    MaxUpsets   \* bound: failed requests, expired tokens, acts of another tab

ASSUME ItemsAssumption ==
    /\ Queues \cap Projects = {}
    /\ (Queues \cup Projects) \cap {None, "boot", "login"} = {}
ASSUME BoundsAssumption == MaxPolls \in Nat \ {0} /\ MaxWrites \in Nat /\ MaxUpsets \in Nat

Items == Queues \cup Projects

VARIABLES
    version,   \* of each queue and project at the server
    token,     \* localStorage: the API accepts it ("good"), refuses it ("bad"), None
    route,     \* "boot" until ready, "login" without a user, else the item shown
    hidden,    \* document.hidden
    hook,      \* data, error and loading of the page's usePoll
    polls,     \* its requests (two alike count once); of a cancelled effect: None
    tab,       \* QueueDetail's tab
    form,      \* the queue whose settings filled SettingsTab's fields, None if unmounted
    revealed,  \* the project whose rotated key Projects holds
    op,        \* a mutation in flight, with what has become of its page
    acked,     \* history: versions of the mutations after which this page refreshed
    carried,   \* history: the form was open while another queue was chosen or fetched
    switched,  \* history: another project was chosen since the key was asked for
    upsets

page == <<tab, form, revealed, carried, switched>>
vars == <<version, token, route, hidden, hook, polls, op, acked, page, upsets>>

Blank    == [data |-> None, error |-> FALSE, loading |-> TRUE]
Refused  == -1      \* status 401
Answers  == {None, Refused} \cup 0..MaxWrites
Tokens   == {"good", "bad", None}
OnPage   == route \in Items
CanWrite == \A v \in Items : version[v] < MaxWrites
Upset    == upsets < MaxUpsets /\ upsets' = upsets + 1

SamePage(v, w) == {v, w} \subseteq Queues \/ {v, w} \subseteq Projects

TypeOK ==
    /\ version \in [Items -> 0..MaxWrites]
    /\ token \in Tokens
    /\ route \in {"boot", "login"} \cup Items
    /\ hidden \in BOOLEAN
    /\ hook \in [data : {None} \cup [of : Items, ver : 0..MaxWrites],
                 error : BOOLEAN, loading : BOOLEAN]
    /\ polls \in SUBSET [of : Items \cup {None}, tok : Tokens, ans : Answers]
    /\ tab \in {"jobs", "settings"}
    /\ form \in {None} \cup Queues
    /\ revealed \in {None} \cup Projects
    /\ op \in {None} \cup [of : Items, tok : Tokens, here : BOOLEAN, ans : Answers]
    /\ acked \in [Items -> 0..MaxWrites]
    /\ carried \in BOOLEAN /\ switched \in BOOLEAN
    /\ upsets \in 0..MaxUpsets

Init ==
    /\ version = [v \in Items |-> 0]
    /\ token \in Tokens /\ route = "boot" /\ hidden = FALSE
    /\ hook = Blank /\ polls = {} /\ op = None
    /\ tab = "jobs" /\ form = None /\ revealed = None
    /\ acked = [v \in Items |-> 0]
    /\ carried = FALSE /\ switched = FALSE /\ upsets = 0

-----------------------------------------------------------------------------
\* usePoll.

\* Faulty variant of Abandon: the cleanup does not set `cancelled`.
AbandonKeeps(ps) == ps

\* The effect's cleanup: what was asked is still answered, and then ignored, unless the
\* answer is a 401.
Abandon(ps) == {[p EXCEPT !.of = None] : p \in {p \in ps : p.ans \in {None, Refused}}}

\* run(): nothing while the tab is hidden, otherwise a request with the token of
\* this moment.
Run(ps, v, isHidden) ==
    IF isHidden THEN ps
                ELSE ps \cup {[of |-> v, tok |-> token, ans |-> None]}

CanRun == Cardinality(polls) < MaxPolls

\* Faulty variant of Effect: the view is missing from the dependencies.
EffectOfMount(v, h) ==
    /\ CanRun
    /\ IF h = Blank THEN polls' = Run(Abandon(polls), v, hidden) /\ hook' = h
                    ELSE UNCHANGED <<polls, hook>>

\* The effect runs anew, of a hook whose state is h: at the mount, and when the view
\* or the tick has changed.  The data stay until an answer replaces them.
Effect(v, h) ==
    /\ CanRun
    /\ polls' = Run(Abandon(polls), v, hidden)
    /\ hook' = [h EXCEPT !.loading = TRUE]

\* Faulty variant of Refresh: one more poll, of the same effect.
RefreshRuns ==
    /\ CanRun
    /\ polls' = Run(polls, route, hidden)
    /\ UNCHANGED hook

Refresh == Effect(route, hook)

\* SettingsTab is mounted while QueueDetail does not return early and its tab is
\* chosen; mounting takes the fields from the queue that is shown.
Rendered(h, t, f) ==
    IF route \notin Queues \/ h.error \/ h.data = None \/ t # "settings" THEN None
    ELSE IF f = None THEN h.data.of ELSE f

\* The render that follows.  A form that is unmounted forgets its queue; one that is
\* opened before the chosen queue has arrived is of the queue before.
Render(h, t) ==
    /\ form' = Rendered(h, t, form)
    /\ carried' = (form' # None /\ (carried \/ (form = None /\ h.data.of # route)))

Tick ==
    /\ OnPage /\ ~hidden /\ CanRun
    /\ polls' = Run(polls, route, hidden)
    /\ UNCHANGED <<version, token, route, hidden, hook, op, acked, page, upsets>>

Hide ==
    /\ ~hidden /\ hidden' = TRUE
    /\ UNCHANGED <<version, token, route, hook, polls, op, acked, page, upsets>>

\* visibilitychange, which every mounted hook answers with a poll.
Show ==
    /\ hidden /\ hidden' = FALSE
    /\ IF OnPage THEN CanRun /\ polls' = Run(polls, route, FALSE) ELSE UNCHANGED polls
    /\ UNCHANGED <<version, token, route, hook, op, acked, page, upsets>>

-----------------------------------------------------------------------------
\* Session.

\* The document is replaced: requests, pages and React state are gone.
Reload(to) ==
    /\ route' = to
    /\ hook' = Blank /\ polls' = {} /\ op' = None
    /\ tab' = "jobs" /\ form' = None /\ revealed' = None
    /\ acked' = [v \in Items |-> 0]
    /\ carried' = FALSE /\ switched' = FALSE

\* A user is there, and the page of v is mounted.
Enter(v) ==
    /\ route' = v
    /\ Effect(v, Blank)
    /\ tab' = "jobs" /\ form' = None /\ revealed' = None
    /\ acked' = [w \in Items |-> 0]
    /\ carried' = FALSE /\ switched' = FALSE

\* AuthProvider's effect: without a token the login page, with one what /auth/me says.
BootWithout ==
    /\ route = "boot" /\ token = None
    /\ Reload("login")
    /\ UNCHANGED <<version, token, hidden, upsets>>

BootKnown(v) ==
    /\ route = "boot" /\ token = "good"
    /\ Enter(v)
    /\ UNCHANGED <<version, token, hidden, op, upsets>>

\* Any failure, a lost answer too, removes the token.
BootFails ==
    /\ route = "boot" /\ token # None
    /\ \/ token = "bad" /\ UNCHANGED upsets
       \/ token = "good" /\ Upset
    /\ token' = None
    /\ Reload("login")
    /\ UNCHANGED <<version, hidden>>

\* login() or register() answers; a rejection leaves the page as it is.
Login(v) ==
    /\ route = "login"
    /\ token' = "good"
    /\ route' = v
    /\ polls' = {[of |-> v, tok |-> "good", ans |-> None]}
    /\ hook' = Blank
    /\ UNCHANGED <<version, hidden, op, acked, page, upsets>>

Logout ==
    /\ OnPage
    /\ token' = None
    /\ Reload("login")
    /\ UNCHANGED <<version, hidden, upsets>>

UserReloads ==
    /\ route # "boot"
    /\ Reload("boot")
    /\ UNCHANGED <<version, token, hidden, upsets>>

\* Another tab of the same origin, and the end of the token's days.
OtherTab ==
    /\ Upset
    /\ token' \in {"good", None} \ {token}
    /\ UNCHANGED <<version, route, hidden, hook, polls, op, acked, page>>

Expire ==
    /\ token = "good" /\ Upset
    /\ token' = "bad"
    /\ polls' = {IF p.tok = "good" /\ p.ans = None THEN [p EXCEPT !.tok = "bad"] ELSE p : p \in polls}
    /\ op' = IF op # None /\ op.tok = "good" /\ op.ans = None
             THEN [op EXCEPT !.tok = "bad"] ELSE op
    /\ UNCHANGED <<version, route, hidden, hook, acked, page>>

-----------------------------------------------------------------------------
\* Pages.

\* Another queue or project of the same page keeps the component, its hook and its
\* state; another page mounts anew.
Goto(v) ==
    /\ OnPage /\ v # route
    /\ \/ /\ SamePage(v, route)
          /\ route' = v
          /\ Effect(v, hook)
          /\ carried' = (carried \/ form # None)
          /\ switched' = (switched \/ revealed # None \/ (op # None /\ op.of \in Projects))
          /\ UNCHANGED <<op, acked, tab, form, revealed>>
       \/ /\ ~SamePage(v, route)
          /\ Enter(v)
          /\ op' = IF op # None THEN [op EXCEPT !.here = FALSE] ELSE op
    /\ UNCHANGED <<version, token, hidden, upsets>>

ChooseTab(t) ==
    /\ route \in Queues /\ hook.data # None /\ ~hook.error /\ t # tab
    /\ tab' = t
    /\ Render(hook, t)
    /\ UNCHANGED <<version, token, route, hidden, hook, polls, op, acked, revealed, switched, upsets>>

\* Faulty variant of Submit: the page does not return early without data.
SubmitEarly ==
    /\ OnPage /\ op = None
    /\ op' = [of |-> IF hook.data = None THEN None ELSE hook.data.of,
              tok |-> token, here |-> TRUE, ans |-> None]
    /\ UNCHANGED <<version, token, route, hidden, hook, polls, acked, page, upsets>>

\* A button of QueueDetail or of its tabs, Save too: to the queue that is shown.
AskQueue ==
    /\ route \in Queues /\ ~hook.error
    /\ op' = [of |-> hook.data.of, tok |-> token, here |-> TRUE, ans |-> None]

\* The rotation names the current project, and shows its button by a key.
AskRotation ==
    /\ route \in Projects
    /\ op' = [of |-> route, tok |-> token, here |-> TRUE, ans |-> None]

Submit ==
    /\ OnPage /\ op = None /\ hook.data # None
    /\ AskQueue \/ AskRotation
    /\ UNCHANGED <<version, token, route, hidden, hook, polls, acked, page, upsets>>

-----------------------------------------------------------------------------
\* Answers.

\* The server reads or writes the row.
Serve(p) ==
    /\ p.ans = None
    /\ polls' = (polls \ {p}) \cup
          (IF p.tok # "good" THEN {[p EXCEPT !.ans = Refused]}
           ELSE IF p.of = None THEN {} ELSE {[p EXCEPT !.ans = version[p.of]]})
    /\ UNCHANGED <<version, token, route, hidden, hook, op, acked, page, upsets>>

ServeOp ==
    /\ op # None /\ op.ans = None
    /\ \/ /\ op.tok # "good"
          /\ op' = [op EXCEPT !.ans = Refused]
          /\ UNCHANGED version
       \/ /\ op.tok = "good" /\ CanWrite
          /\ version' = [version EXCEPT ![op.of] = @ + 1]
          /\ op' = [op EXCEPT !.ans = version'[op.of]]
    /\ UNCHANGED <<token, route, hidden, hook, polls, acked, page, upsets>>

\* Another user changes what the tab shows.
OtherWrite(v) ==
    /\ CanWrite /\ Upset
    /\ version' = [version EXCEPT ![v] = @ + 1]
    /\ UNCHANGED <<token, route, hidden, hook, polls, op, acked, page>>

\* Faulty variant of Unauthorized: the 401 is an error like any other.
UnauthorizedShown(tok) == FALSE

\* api(): a 401 to a request that carried a token removes the stored token, whichever
\* that is by now, and leads to the login page.
Unauthorized(tok) == tok # None

LandPoll(p) ==
    /\ p.ans # None
    /\ \/ /\ p.ans = Refused /\ Unauthorized(p.tok)
          /\ token' = None
          /\ Reload("login")
       \/ /\ p.ans # Refused \/ ~Unauthorized(p.tok)
          /\ polls' = polls \ {p}
          /\ hook' = IF p.of = None THEN hook
                     ELSE IF p.ans = Refused THEN [hook EXCEPT !.error = TRUE, !.loading = FALSE]
                     ELSE [data |-> [of |-> p.of, ver |-> p.ans], error |-> FALSE, loading |-> FALSE]
          /\ Render(hook', tab)
          /\ UNCHANGED <<token, route, op, acked, tab, revealed, switched>>
    /\ UNCHANGED <<version, hidden, upsets>>

\* The request fails: no answer, or one that is not ok.
LosePoll(p) ==
    /\ Upset
    /\ polls' = polls \ {p}
    /\ hook' = IF p.of # None THEN [hook EXCEPT !.error = TRUE, !.loading = FALSE] ELSE hook
    /\ Render(hook', tab)
    /\ UNCHANGED <<version, token, route, hidden, op, acked, tab, revealed, switched>>

\* The mutation is answered.  Its closure refreshes the hook it was made with, which
\* does nothing once that page is unmounted; a rotation also keeps the new key.
LandOp ==
    /\ op # None /\ op.ans # None
    /\ \/ /\ op.ans = Refused /\ Unauthorized(op.tok)
          /\ token' = None
          /\ Reload("login")
       \/ /\ op.ans # Refused /\ op.here
          /\ op' = None
          /\ Refresh
          /\ acked' = [acked EXCEPT ![op.of] = op.ans]
          /\ revealed' = IF op.of \in Projects THEN op.of ELSE revealed
          /\ UNCHANGED <<token, route, tab, form, carried, switched>>
       \/ /\ \/ op.ans # Refused /\ ~op.here
             \/ op.ans = Refused /\ ~Unauthorized(op.tok)
          /\ op' = None
          /\ UNCHANGED <<token, route, hook, polls, acked, page>>
    /\ UNCHANGED <<version, hidden, upsets>>

\* The user reads an error; the write may have happened.
LoseOp ==
    /\ op # None /\ Upset
    /\ op' = None
    /\ UNCHANGED <<version, token, route, hidden, hook, polls, acked, page>>

-----------------------------------------------------------------------------
Next ==
    \/ Tick \/ Hide \/ Show
    \/ BootWithout \/ BootFails \/ Logout \/ UserReloads \/ OtherTab \/ Expire
    \/ \E v \in Items : BootKnown(v) \/ Login(v) \/ Goto(v) \/ OtherWrite(v)
    \/ \E t \in {"jobs", "settings"} : ChooseTab(t)
    \/ \E p \in polls : Serve(p) \/ LandPoll(p) \/ LosePoll(p)
    \/ Submit \/ ServeOp \/ LandOp \/ LoseOp

Spec == Init /\ [][Next]_vars

\* setInterval goes on firing, the boot request is answered, and so is every poll;
\* answers fail only as often as MaxUpsets says.
FairSpec ==
    /\ Spec
    /\ WF_vars(Tick)
    /\ WF_vars(BootWithout \/ BootFails \/ \E v \in Items : BootKnown(v))
    /\ WF_vars(\E p \in polls : Serve(p))
    /\ WF_vars(\E p \in polls : LandPoll(p))

-----------------------------------------------------------------------------
\* Properties.

Shown == hook.data # None /\ ~hook.loading /\ ~hook.error

\* What is shown as settled is of the queue or project in the address, and after a
\* mutation was acknowledged and its page refreshed, no poll that was answered before
\* the mutation is shown any more (usePoll's `cancelled`, Layout and QueueDetail's
\* refresh() after a POST).
ShownIsCurrent ==
    Shown => hook.data.of = route /\ hook.data.ver >= acked[hook.data.of]

\* The settings form holds the settings of the queue that Save would write, whatever
\* the order of answers, errors that unmount it, and tabs; only a form that is open while
\* another queue is chosen and fetched keeps the fields of the one before (SettingsTab is
\* not keyed by the queue).
FormFitsQueue ==
    form # None /\ ~carried => form = hook.data.of

\* The key under "API access" is the current project's, once the page has settled;
\* only a revealed key stays when the project is switched (Projects.tsx:46).
KeyFitsProject ==
    LET of == IF revealed # None THEN revealed
              ELSE IF hook.data # None THEN hook.data.of ELSE None
    IN  route \in Projects /\ of # None => of = route \/ switched \/ hook.loading \/ hook.error

\* A visible page comes to show its object with a token that is accepted, or the tab
\* leaves for the login page; only a token that another tab took away leaves it with
\* errors (client.ts:40 acts on a 401 only if the request had a token).
PageSettles ==
    \A v \in Queues :
        (route = v /\ ~hidden) ~>
            (route # v \/ hidden \/ token = None \/ (Shown /\ hook.data.of = v /\ token = "good"))
=============================================================================
