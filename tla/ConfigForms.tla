---------------------------- MODULE ConfigForms -----------------------------
(***************************************************************************)
(* The forms of the web console.  Each is filled from a cached answer of   *)
(* the server, edited, and saved with a request, while other users save    *)
(* too, events have the answer read again, and answers cross:              *)
(*                                                                         *)
(*   plan       rules and schedules: one draft, saved section by section   *)
(*              against the revision it was taken from;                    *)
(*   account    one connection for AI analysis: saved whole, against its   *)
(*              revision;                                                  *)
(*   platforms  one request for each platform, no revision;                *)
(*   circles    one request for all rows, no revision;                     *)
(*   vehicle    the window for a vehicle of the reputation scope: filled    *)
(*              when it is opened, saved whole, against the revision the   *)
(*              page holds by then.                                        *)
(*                                                                         *)
(* A section's content is a number: those typed in this form are positive, *)
(* those of others negative, each new one a new number.  The server's      *)
(* contents are kept by version; a revision is named by the version it was *)
(* read with, and two versions may carry the same one.                     *)
(***************************************************************************)
EXTENDS EventRefresh

CONSTANTS
    Form,           \* the key of the answer the form is filled from
    Sections,       \* its parts: plan sections, groups, platforms, rows, fields
    Contested,      \* bound: those that others change too
    MaxEdits,       \* bound: contents typed
    MaxOverlap      \* bound: versions stored during a transaction of others

ASSUME FormAssumption ==
    Form \in Queries /\ Contested \subseteq Sections /\ MaxEdits \in Nat /\ MaxOverlap \in Nat

VARIABLES
    kind,           \* which of the forms
    versions,       \* what the server had, by version
    revisions,      \* the revision that each version carried
    draft,          \* what the form shows, and the revision it goes with
    touched,        \* platforms, circles: the form's own mark of being edited
    save,           \* the save under way
    dialog,         \* plan: the revision was refused; the server's plan is reloaded;
                    \* vehicle: the window is open
    restore,        \* plan: an archived rule is being restored
    typed,          \* how many contents were typed
    mine,           \* what was typed and is neither saved nor given up
    basis,          \* what the page showed of a section when its editing began
    misled          \* a late answer has put an older version in the cache, or a save has
                    \* been answered that was stored over another version than its own

notes == <<typed, mine, basis, misled>>
stored == <<versions, revisions>>
form == <<kind, stored, draft, touched, save, dialog, restore, notes>>

Kinds == {"plan", "account", "platforms", "circles", "vehicle"}
Checked == kind \in {"plan", "account", "vehicle"}
Locked == kind \in {"plan", "account"}
Nothing == [s \in Sections |-> 0]

\* What the server and the form have, and with which revision.
Contents == [Sections -> -MaxVersion[Form]..typed]
Drafts == [revision : 1..server[Form], of : Contents]
NoSave == [stage |-> "none"]
NoRestore == [stage |-> "none"]

FormTypeOK ==
    /\ kind \in Kinds
    /\ Len(versions) = server[Form] /\ DOMAIN revisions = DOMAIN versions
    /\ draft \in Drafts
    /\ save.stage \in {"none", "sent", "checked", "accepted", "refused"}
    /\ restore.stage \in {"none", "sent", "done"}
    /\ dialog \in {"none", "conflict", "reload", "vehicle"}
    /\ touched \in BOOLEAN /\ misled \in BOOLEAN /\ typed \in 0..MaxEdits
    /\ mine \in [Sections -> 0..MaxEdits] /\ DOMAIN basis = Sections

FormInit ==
    /\ kind \in Kinds
    /\ versions = <<Nothing>> /\ revisions = <<1>> /\ draft = [revision |-> 1, of |-> Nothing]
    /\ touched = FALSE /\ save = NoSave /\ dialog = "none" /\ restore = NoRestore
    /\ typed = 0 /\ mine = Nothing /\ basis = Nothing /\ misled = FALSE

-----------------------------------------------------------------------------
Shown == versions[cache[Form]]
Taken(version) == [revision |-> version, of |-> versions[version]]
Dirty(s) == draft.of[s] # Shown[s]
Edited ==
    CASE Locked -> \E s \in Sections : Dirty(s)
      [] kind = "vehicle" -> draft.of # versions[draft.revision]
      [] OTHER -> touched

\* Slip: the draft goes with the newest revision, although edited sections stay.
PlanFilledRebased(version) ==
    [revision |-> version,
     of |-> [s \in Sections |-> IF Dirty(s) THEN draft.of[s] ELSE versions[version][s]]]

\* The form when the cached answer has become that of `version`.
\* plan: edited sections stay, and with them the revision they were taken from.
PlanFilled(version) ==
    LET kept == {s \in Sections : Dirty(s)} IN
    [revision |-> IF kept # {} THEN draft.revision ELSE version,
     of |-> [s \in Sections |-> IF s \in kept THEN draft.of[s] ELSE versions[version][s]]]

\* Slip: the account's draft is replaced, edited or not.
AccountRefilled(version) == Taken(version)

\* account: an edited draft stays as a whole.
AccountFilled(version) == IF Edited THEN draft ELSE Taken(version)

\* platforms and circles: so does one that is marked as edited.
ListFilled(version) == IF touched THEN draft ELSE Taken(version)

Filled(version) ==
    CASE kind = "plan" -> PlanFilled(version)
      [] kind = "account" -> AccountFilled(version)
      [] kind = "vehicle" -> draft
      [] OTHER -> ListFilled(version)

-----------------------------------------------------------------------------
\* What may be typed into: plan and account lock their fields during a save, the
\* question what to do about a conflict locks the page.
PlanOpen == dialog # "conflict" /\ save = NoSave
AccountOpen == save = NoSave
VehicleOpen == dialog = "vehicle"
Editable ==
    CASE kind = "plan" -> PlanOpen
      [] kind = "account" -> AccountOpen
      [] kind = "vehicle" -> VehicleOpen
      [] OTHER -> TRUE

\* The forms that keep a mark of being edited.
Marks == kind \in {"platforms", "circles"}

Edit(s) ==
    /\ Editable /\ typed < MaxEdits
    /\ typed' = typed + 1
    /\ draft' = [draft EXCEPT !.of[s] = typed']
    /\ touched' = Marks
    /\ mine' = [mine EXCEPT ![s] = typed']
    /\ basis' = CASE kind = "vehicle" -> basis
                  [] Locked /\ ~Dirty(s) -> [basis EXCEPT ![s] = Shown[s]]
                  [] OTHER -> basis
    /\ UNCHANGED <<kind, stored, save, dialog, restore, misled, events>>

\* plan: one section is given up, the revision only with the last one.
DiscardSection(s) ==
    LET others == \E t \in Sections \ {s} : Dirty(t) IN
    /\ kind = "plan" /\ Editable /\ Dirty(s)
    /\ draft' = [revision |-> IF others THEN draft.revision ELSE cache[Form],
                 of |-> [draft.of EXCEPT ![s] = Shown[s]]]
    /\ mine' = [mine EXCEPT ![s] = 0] /\ basis' = [basis EXCEPT ![s] = 0]
    /\ UNCHANGED touched

\* The other forms are given up as a whole.
DiscardAll ==
    /\ kind \notin {"plan", "vehicle"} /\ save = NoSave /\ Edited
    /\ draft' = Taken(cache[Form])
    /\ touched' = FALSE /\ mine' = Nothing /\ basis' = Nothing

Discard ==
    /\ DiscardAll \/ \E s \in Sections : DiscardSection(s)
    /\ UNCHANGED <<kind, stored, save, dialog, restore, typed, misled, events>>

\* vehicle: the window is opened on what the page holds, and closed.
OpenVehicle ==
    /\ kind = "vehicle" /\ dialog = "none" /\ save = NoSave
    /\ dialog' = "vehicle"
    /\ draft' = Taken(cache[Form]) /\ basis' = Shown
    /\ UNCHANGED <<kind, stored, touched, save, restore, typed, mine, misled, events>>

CloseVehicle ==
    /\ dialog = "vehicle" /\ dialog' = "none"
    /\ mine' = Nothing
    /\ UNCHANGED <<kind, stored, draft, touched, save, restore, typed, basis, misled, events>>

-----------------------------------------------------------------------------
\* A save: the sections it sends, those it means to change, and what was typed by
\* then.
Sent(of, meant) ==
    save' = [stage |-> "sent", of |-> of, meant |-> meant, at |-> typed,
             revision |-> IF kind = "vehicle" THEN cache[Form] ELSE draft.revision]

\* plan: the section's draft, and the others as the page last read them.
SavePlan ==
    \E s \in Sections : Dirty(s) /\ Sent([Shown EXCEPT ![s] = draft.of[s]], {s})

SaveAccount == Edited /\ Sent(draft.of, Sections)

SaveVehicle == dialog = "vehicle" /\ Edited /\ Sent(draft.of, Sections)

\* platforms and circles send all they show.
SaveList == touched /\ Sent(draft.of, Sections)

Save ==
    /\ save = NoSave /\ dialog # "conflict"
    /\ CASE kind = "plan" -> SavePlan
         [] kind = "account" -> SaveAccount
         [] kind = "vehicle" -> SaveVehicle
         [] OTHER -> SaveList
    /\ UNCHANGED <<kind, stored, draft, touched, dialog, restore, notes, events>>

-----------------------------------------------------------------------------
\* What the server comes to have.
Newest == versions[Len(versions)]
Theirs == -Len(versions)

\* A transaction checks and counts the revision of the version it `read`; others
\* may commit before it writes.
Stores(of, read) ==
    /\ versions' = Append(versions, of)
    /\ revisions' = Append(revisions, revisions[read] + 1)
    /\ Publish(Form)

\* The version that a transaction of others may have read.
Reads == {read \in DOMAIN versions : read + (IF Checked THEN MaxOverlap ELSE 0) >= Len(versions)}

\* The versions from which it may have loaded the row of each section by then.
RowsRead(read) == [Sections -> IF kind = "account" THEN {read} ELSE read..Len(versions)]

\* It writes what differs from the row it `loaded`; the scope is one document.
Written(of, loaded) ==
    [s \in Sections |-> IF kind # "vehicle" /\ of[s] = versions[loaded[s]][s]
                        THEN Newest[s] ELSE of[s]]

\* Another user, or a worker, changes a section.
OthersSave ==
    /\ \E s \in Contested, read \in Reads : \E loaded \in RowsRead(read) :
           Stores(Written([versions[read] EXCEPT ![s] = Theirs], loaded), read)
    /\ UNCHANGED <<kind, draft, touched, save, dialog, restore, notes, active, round, held,
                   incidents>>

\* The server checks the revision, where there is one.
Accepts == Checked => revisions[save.revision] = revisions[server[Form]]

ServerChecks ==
    /\ save.stage = "sent"
    /\ save' = IF Accepts
               THEN [stage |-> "checked", of |-> save.of, meant |-> save.meant, at |-> save.at,
                     revision |-> save.revision, read |-> Len(versions)]
               ELSE [stage |-> "refused"]
    /\ UNCHANGED <<kind, stored, draft, touched, dialog, restore, notes, events>>

\* It stores what was sent, without a second look at the revision; of the requests
\* for the platforms some may fail.
Stored(some, loaded) ==
    LET written == Written(save.of, loaded) IN
    /\ some = Sections \/ (kind = "platforms" /\ some # {})
    /\ Stores([s \in Sections |-> IF s \in some THEN written[s] ELSE Newest[s]], save.read)
    /\ mine' = [s \in Sections |-> IF s \in some /\ mine[s] = save.of[s] THEN 0 ELSE mine[s]]
    /\ save' = IF some = Sections
               THEN [stage |-> "accepted", version |-> server'[Form], meant |-> save.meant,
                     at |-> save.at, own |-> Checked => save.revision = Len(versions)]
               ELSE [stage |-> "refused"]

ServerStores ==
    /\ save.stage = "checked"
    /\ \E some \in SUBSET Sections, loaded \in RowsRead(save.read) : Stored(some, loaded)
    /\ UNCHANGED <<kind, draft, touched, dialog, restore, typed, basis, misled, active,
                   round, held, incidents>>

\* The answer of a save fills the form: what was edited in the other sections of
\* a plan stays, what was typed into a list meanwhile does not.
Answered(version) ==
    [revision |-> version,
     of |-> [s \in Sections |-> IF kind = "plan" /\ Dirty(s) /\ s \notin save.meant
                                THEN draft.of[s] ELSE versions[version][s]]]

SaveAnswered ==
    /\ save.stage = "accepted"
    /\ draft' = Answered(save.version)
    /\ touched' = FALSE
    /\ SetData(Form, save.version, kind = "circles")
    /\ save' = NoSave
    /\ dialog' = IF dialog = "vehicle" THEN "none" ELSE dialog
    /\ basis' = [s \in Sections |-> IF s \in save.meant THEN 0 ELSE basis[s]]
    /\ misled' = (misled \/ ~save.own)
    /\ UNCHANGED <<kind, stored, restore, typed, mine, server, stream, incidents>>

\* It was refused: the form stays, and a plan's user is asked what to do about it.
SaveRefused ==
    /\ save.stage = "refused"
    /\ dialog' = IF kind = "plan" THEN "conflict" ELSE dialog
    /\ save' = NoSave
    /\ UNCHANGED <<kind, stored, draft, touched, restore, notes, events>>

\* It was lost on its way there or back, or failed: the form stays.
SaveLost ==
    /\ save # NoSave /\ incidents < MaxIncidents /\ incidents' = incidents + 1
    /\ save' = NoSave
    /\ UNCHANGED <<kind, stored, draft, touched, dialog, restore, notes, server, stream,
                   active, round, held>>

-----------------------------------------------------------------------------
\* The draft stays although its revision is too old for the server.
KeepDraft ==
    /\ dialog = "conflict" /\ dialog' = "none"
    /\ UNCHANGED <<kind, stored, draft, touched, save, restore, notes, events>>

\* Or the server's plan is read again, whatever request was under way, and
\* replaces the form.
Reload ==
    /\ dialog = "conflict" /\ dialog' = "reload"
    /\ mine' = Nothing
    /\ fetching' = [fetching EXCEPT ![Form] = "asked"]
    /\ answer' = [answer EXCEPT ![Form] = 0]
    /\ UNCHANGED <<kind, stored, draft, touched, save, restore, typed, basis, misled,
                   server, stream, active, invalidated, pending, timer, known, incidents>>

\* An answer has come in, or failed: then a reload puts in what there was.
Reloaded(version) ==
    /\ dialog' = IF dialog = "reload" THEN "none" ELSE dialog
    /\ draft' = IF dialog = "reload" THEN Taken(version) ELSE Filled(version)
    /\ UNCHANGED <<kind, stored, touched, save, restore, typed, mine, basis>>

FormSettles ==
    /\ Settle(Form)
    /\ misled' = (misled \/ answer[Form] < cache[Form])
    /\ Reloaded(answer[Form])

FormFails == Fail(Form) /\ Reloaded(cache[Form]) /\ UNCHANGED misled

\* plan: an archived rule is restored, with nothing unsaved in the form when it
\* is asked for; the fields stay open, and the answer replaces them.
Restore ==
    /\ kind = "plan" /\ ~Edited /\ save = NoSave /\ dialog # "conflict"
    /\ restore = NoRestore /\ restore' = [stage |-> "sent", at |-> typed]
    /\ incidents < MaxIncidents /\ incidents' = incidents + 1
    /\ UNCHANGED <<kind, stored, draft, touched, save, dialog, notes, server, stream, active,
                   round, held>>

\* It changes a row of its own, and counts the revision that its transaction read.
ServerRestores ==
    /\ restore.stage = "sent"
    /\ \E s \in Contested, read \in Reads : Stores([Newest EXCEPT ![s] = Theirs], read)
    /\ restore' = [stage |-> "done", version |-> server'[Form], at |-> restore.at]
    /\ UNCHANGED <<kind, draft, touched, save, dialog, notes, active, round, held, incidents>>

Restored ==
    /\ restore.stage = "done"
    /\ draft' = Taken(restore.version)
    /\ SetData(Form, restore.version, FALSE)
    /\ restore' = NoRestore
    /\ UNCHANGED <<kind, stored, touched, save, dialog, notes, server, stream, incidents>>

FormNext ==
    \/ \E s \in Sections : Edit(s)
    \/ OpenVehicle \/ CloseVehicle
    \/ Discard \/ Save \/ OthersSave \/ ServerChecks \/ ServerStores
    \/ SaveAnswered \/ SaveRefused \/ SaveLost \/ KeepDraft \/ Reload \/ FormSettles \/ FormFails
    \/ Restore \/ ServerRestores \/ Restored

-----------------------------------------------------------------------------
\* A content of the user is replaced in the form by something else.
Vanishes(s) == mine'[s] # 0 /\ draft.of[s] = mine[s] /\ draft'.of[s] # mine'[s]

\* The fields stay open meanwhile; those of a plan or an account not during a save,
\* and a reload is only asked for by giving up what was typed before.
TypedDuringSave(s) ==
    save.stage = "accepted" /\ save' = NoSave /\ ~Locked /\ mine[s] > save.at
TypedDuringRestore(s) ==
    restore.stage = "done" /\ restore' = NoRestore /\ mine[s] > restore.at
TypedDuringReload == dialog = "reload" /\ dialog' = "none"

\* usePlanWorkspace, useLayoutEffect of SentimentAccountEditor, effects of the
\* panels: what the user typed and has neither saved nor given up stays in the
\* form, whatever answers come in; except that the answer of a save, a restored
\* rule or a reload replaces what was typed after it was asked for.
DraftsAreTheUsers ==
    [][\A s \in Sections : Vanishes(s) => TypedDuringSave(s) \/ TypedDuringRestore(s)
                                         \/ TypedDuringReload]_form

\* A save stored against its revision changes what it means to change, and
\* replaces there what the user was shown when the editing began.
Overwrites ==
    \E s \in Sections :
        /\ Len(versions') > Len(versions) /\ save # save'
        /\ versions'[Len(versions')][s] # Newest[s]
        /\ s \notin save.meant \/ Newest[s] # basis[s]

\* The page has read a newer scope since the vehicle's window was filled.
WindowOutdated == kind = "vehicle" /\ save.revision # draft.revision

\* Another version was stored between the check of the save and its writing; or an
\* earlier such race has left two versions with the revision the save goes with.
Raced == save.read # Len(versions)
Ambiguous ==
    \E version \in DOMAIN versions \ {save.revision} :
        revisions[version] = revisions[save.revision]

\* usePlanWorkspace.save, SentimentAccountEditor.save, saveVehicleMutation and the
\* server's check of the revision: nobody's change is overwritten unseen, except
\* from a window that was filled before the page read what it then overwrites, when
\* the server stored something else after the save was checked or under the revision
\* it has, and once a late answer or the answer of such a save has filled the form.
OverwritesExplained ==
    [][Checked /\ Overwrites => misled \/ WindowOutdated \/ Raced \/ Ambiguous]_form
=============================================================================
