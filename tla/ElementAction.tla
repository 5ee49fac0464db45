---------------------------- MODULE ElementAction ----------------------------
(***************************************************************************)
(* Acting on an element (dom/identity.py, dom/actions.py, the tools click, *)
(* fill and fill_form): it is located, measured until it settles, and then *)
(* clicked, typed into or given a value, in separate round trips to a page *)
(* that moves, covers, flips or removes it in between.  upload_file        *)
(* (dom/upload.py) gives an input a file, which it looks at, reads and     *)
(* hands over in separate steps too.                                       *)
(*                                                                         *)
(* What a call resolved is noted as it goes (tools/_target_notes.py), and  *)
(* the record of it that telemetry keeps is redacted by those notes        *)
(* (tools/_secrets.py) however the call ends.                              *)
(*                                                                         *)
(* One tab.  An operation of the page is one step (ElementRegistry has its *)
(* failures); a mouse event, and each key of a value, is one too, and acts *)
(* on whatever is at the place or has the focus.  The text of a field is   *)
(* the sequence of those whose keys it holds.  Calls of several clients    *)
(* run concurrently.                                                       *)
(***************************************************************************)
EXTENDS ToolCalls, Integers, Sequences, FiniteSetsExt, Functions

CONSTANTS
    Elements,
    Kind,      \* of an element: "text", "toggle", "radio", "select" or "file"
    Tool,      \* of a call: "click", "fill", "fill_form" or "upload_file"
    Fields,    \* of a call: the elements it names, in order
    Selected,  \* the calls that name theirs by selector
    Wanted,    \* of a call: the state its value asks of a toggle
    Secrets,   \* the elements that are password fields, or named like one
    Telling,   \* the calls whose selector is named like one
    Keys,      \* how many keys a value takes
    Cancels,   \* bound: the calls that may be cancelled
    Made,      \* bound: how many of the calls are made
    Unrest     \* bound: what the page and the disk do by themselves

ASSUME ActionConstants ==
    /\ Kind \in [Elements -> {"text", "toggle", "radio", "select", "file"}]
    /\ Tool \in [Calls -> {"click", "fill", "fill_form", "upload_file"}]
    /\ \A c \in Calls : Fields[c] \in Seq(Elements) /\ Fields[c] # <<>>
    /\ Selected \subseteq Calls
    /\ \A c \in Calls : Tool[c] # "fill_form" => Len(Fields[c]) = 1
    /\ \A c \in Selected : Tool[c] # "fill_form"
    /\ Wanted \in [Calls -> BOOLEAN] /\ {Made, Unrest} \subseteq Nat /\ Keys \in Nat \ {0}
    /\ "" \notin Elements /\ "old" \notin Calls    \* NoUid; nobody's text
    /\ Secrets \subseteq Elements /\ Telling \subseteq Selected /\ Cancels \subseteq Calls

VARIABLES
    el,     \* the page's elements
    focus,  \* document.activeElement, and whether its text is selected
    disk,   \* the file on disk: "small", "large" (over MAX_UPLOAD_BYTES), or
            \* "refused": missing, no regular file, or not on this machine
    unrest, \* of Unrest, what is left
    acting  \* what each call is at

actionVars == <<el, focus, disk, unrest, acting>>

Unset == -1      \* no place, no option
NoUid == ""
Unmade == [pc |-> "idle", at |-> 1,
           prev |-> Unset, aim |-> Unset,    \* resolve: the last two places measured
           checked |-> FALSE,                \* Hit.checked
           calm |-> TRUE,    \* nobody else set the field since it was measured,
           still |-> TRUE,   \* nor moved it since the last look
           notes |-> <<>>,   \* the call's targets: their uid and whether it resolved
           wrote |-> {},     \* the fields told as filled
           typed |-> 0,      \* the keys of its value typed
           strayed |-> FALSE, \* some other field had the focus when it typed
           data |-> "none",  \* the bytes an upload has read
           hit |-> FALSE]    \* the click came down on it

ActionInit ==
    /\ el = [e \in Elements |-> [place |-> 0, covered |-> FALSE, alive |-> TRUE,
                                 checked |-> FALSE, text |-> <<"old">>, options |-> {1, 2}, chosen |-> 1, files |-> <<>>]]
    /\ focus = [on |-> "body", all |-> FALSE]
    /\ disk = "small"
    /\ unrest = Unrest
    /\ acting = [c \in Calls |-> Unmade]

Field(c) == Fields[c][acting[c].at]
ActingAt(c, pc) == acting[c].pc = pc
Ended(d) == acting[d].pc \in {"done", "failed", "cancelled"}
Acting(d) == ~ActingAt(d, "idle") /\ ~Ended(d)

TextFields == {x \in Elements : Kind[x] = "text"}

\* The locals of a call end with it: all that stays is what it noted, what it told,
\* whether its keys strayed and whether the field it ended at was measured.
Leaves(r) ==
    IF r.pc \notin {"done", "failed", "cancelled"} THEN r
    ELSE [Unmade EXCEPT !.pc = r.pc, !.at = r.at, !.notes = r.notes, !.wrote = r.wrote,
                        !.strayed = r.strayed, !.aim = IF r.aim = Unset THEN Unset ELSE 0]

\* A call goes on from the state r; those at an element it touched saw it otherwise.
Moves(c, r, touched) ==
    acting' = [d \in Calls |->
                IF d = c THEN Leaves(r)
                ELSE IF Acting(d) /\ Field(d) \in touched THEN [acting[d] EXCEPT !.calm = FALSE]
                ELSE acting[d]]
Proceeds(c, r) == Moves(c, r, {})
ProceedsTo(c, pc) == Proceeds(c, [acting[c] EXCEPT !.pc = pc])

\* note_target: the address a call is about to act on.
Noted(notes, uid) == Append(notes, [uid |-> uid, resolved |-> FALSE])

\* A form turns to its next field.
Turns(r, fields) ==
    [Unmade EXCEPT !.pc = "probe", !.at = r.at + 1, !.wrote = r.wrote, !.strayed = r.strayed,
                   !.notes = Noted(r.notes, fields[r.at + 1])]

\* Fault: the form has turned to the next field when one is not found, and the
\* error names that one.
ActionFails_NamesTheNext(c) ==
    Proceeds(c, [acting[c] EXCEPT !.pc = "failed",
                                  !.at = IF acting[c].aim = Unset /\ @ < Len(Fields[c]) THEN @ + 1 ELSE @])

ActionFails(c) == ProceedsTo(c, "failed")
PageRests == UNCHANGED <<el, focus, disk, unrest>>

-----------------------------------------------------------------------------
\* The tools.

\* A field has what its value asks for: on to the next of a form, or the end.
Filled(r, fields) ==
    LET w == [r EXCEPT !.wrote = @ \cup {r.at}] IN
    IF r.at < Len(fields) THEN Turns(w, fields) ELSE [w EXCEPT !.pc = "done"]

\* What is done first with a uid.
First(c) == IF Tool[c] = "upload_file" THEN "stat" ELSE "probe"

\* resolve_target, or the first _fill_one.
Start(c) ==
    /\ ActingAt(c, "idle") /\ Cardinality({d \in Calls : ~ActingAt(d, "idle")}) < Made
    /\ Proceeds(c, [acting[c] EXCEPT !.pc = IF c \in Selected THEN "locate" ELSE First(c),
                                     !.notes = Noted(<<>>, IF c \in Selected THEN NoUid ELSE Field(c))])
    /\ PageRests

\* bind_selector: a poll that matches gives a uid, one that expires an error.
Locate(c) ==
    /\ ActingAt(c, "locate")
    /\ IF el[Field(c)].alive THEN ProceedsTo(c, First(c)) ELSE ActionFails(c)
    /\ PageRests

-----------------------------------------------------------------------------
\* resolve: look until two looks agree, or the budget is spent.

HitTested(c) == Tool[c] = "click" \/ ActingAt(c, "aim")

\* note_identity: the last address that still waits for it is completed.
Identified(notes, uid) ==
    LET waiting == {i \in DOMAIN notes : ~notes[i].resolved /\ notes[i].uid \in {uid, NoUid}}
        known == [uid |-> uid, resolved |-> TRUE] IN
    IF waiting = {} THEN Append(notes, known) ELSE [notes EXCEPT ![Max(waiting)] = known]

\* Fault: the click goes where the element was first measured.
Settled_AtFirst(c, looked) ==
    IF ActingAt(c, "aim") THEN [looked EXCEPT !.pc = "click"]
    ELSE [looked EXCEPT !.pc = IF Tool[c] = "click" THEN "click" ELSE "measured",
                        !.notes = Identified(@, Field(c)), !.aim = looked.prev,
                        !.checked = el[Field(c)].checked]

\* The last look is the measurement.
Settled(c, looked) ==
    IF ActingAt(c, "aim") THEN [looked EXCEPT !.pc = "click", !.aim = looked.prev]
    ELSE [looked EXCEPT !.pc = IF Tool[c] = "click" THEN "click" ELSE "measured",
                        !.notes = Identified(@, Field(c)), !.aim = looked.prev,
                        !.checked = el[Field(c)].checked]

\* One look.  A uid the page does not know is an error at once, and so is an
\* element still covered when the budget is over; one still moving then is taken
\* where it was seen last.
Look(c) ==
    LET e == el[Field(c)]
        blocked == HitTested(c) /\ e.covered
        looked == [acting[c] EXCEPT !.prev = e.place, !.still = TRUE, !.calm = @ \/ ActingAt(c, "probe")] IN
    /\ acting[c].pc \in {"probe", "aim"}
    /\ IF ~e.alive THEN ActionFails(c)
       ELSE \/ ~blocked /\ Proceeds(c, Settled(c, looked))
            \/ /\ e.place # acting[c].prev \/ blocked
               /\ Proceeds(c, looked) \/ (blocked /\ ActionFails(c))
    /\ PageRests

\* Fault: a toggle is clicked whatever its state.
Measured_TogglesBlind(c) ==
    /\ ActingAt(c, "measured")
    /\ IF Kind[Field(c)] = "file" THEN ActionFails(c)
       ELSE Proceeds(c, [acting[c] EXCEPT !.prev = Unset,
                                          !.pc = CASE Kind[Field(c)] = "text" -> "prepare"
                                                [] Kind[Field(c)] = "select" -> "options"
                                                [] OTHER -> "aim"])
    /\ PageRests

\* The field's kind decides what is done: a toggle that is in the state wanted is
\* left as it is, a file input refused.
Measured(c) ==
    /\ ActingAt(c, "measured")
    /\ LET kind == Kind[Field(c)]
           r == [acting[c] EXCEPT !.prev = Unset] IN
       CASE kind = "text" -> Proceeds(c, [r EXCEPT !.pc = "prepare"])
         [] kind = "select" -> Proceeds(c, [r EXCEPT !.pc = "options"])
         [] kind = "file" -> ActionFails(c)
         [] OTHER -> Proceeds(c, IF r.checked # Wanted[c] THEN [r EXCEPT !.pc = "aim"]
                                ELSE Filled(r, Fields[c]))
    /\ PageRests

-----------------------------------------------------------------------------
\* Acting.  A click comes down on what is at the place: a click on a checkbox
\* flips it, one on a radio checks it.
Click(c) ==
    LET x == Field(c)
        lands == el[x].alive /\ ~el[x].covered /\ el[x].place = acting[c].aim
        checked == CASE Kind[x] = "toggle" -> ~el[x].checked
                     [] Kind[x] = "radio" -> TRUE
                     [] OTHER -> el[x].checked IN
    /\ ActingAt(c, "click")
    /\ el' = IF lands THEN [el EXCEPT ![x].checked = checked] ELSE el
    /\ Moves(c, [acting[c] EXCEPT !.pc = "clicked", !.hit = lands], IF lands THEN {x} ELSE {})
    /\ UNCHANGED <<focus, disk, unrest>>

\* The click is acknowledged, and told as done whatever it did.
Clicked(c) ==
    /\ ActingAt(c, "clicked")
    /\ Proceeds(c, Filled(acting[c], Fields[c]))
    /\ PageRests

\* prepareFill: focus and a selection; then a Delete, if the field had a text.
PrepareFill(c) ==
    LET x == Field(c) IN
    /\ ActingAt(c, "prepare")
    /\ IF ~el[x].alive THEN ActionFails(c) /\ UNCHANGED focus
       ELSE /\ focus' = [on |-> x, all |-> TRUE]
            /\ Moves(c, [acting[c] EXCEPT !.pc = IF el[x].text # <<>> THEN "delete" ELSE "type", !.typed = 0],
                     TextFields)
    /\ UNCHANGED <<el, disk, unrest>>

Delete(c) ==
    /\ ActingAt(c, "delete")
    /\ el' = IF focus.on \in Elements /\ focus.all THEN [el EXCEPT ![focus.on].text = <<>>] ELSE el
    /\ Moves(c, [acting[c] EXCEPT !.pc = "type"], {focus.on})
    /\ UNCHANGED <<focus, disk, unrest>>

\* One key of the value; with the last the field is filled.
Type(c) ==
    LET r == [acting[c] EXCEPT !.typed = @ + 1, !.strayed = @ \/ focus.on # Field(c)] IN
    /\ ActingAt(c, "type")
    /\ el' = IF focus.on \in Elements
             THEN [el EXCEPT ![focus.on].text = IF focus.all THEN <<c>> ELSE Append(@, c)] ELSE el
    /\ focus' = [focus EXCEPT !.all = FALSE]
    /\ Moves(c, IF r.typed = Keys THEN Filled(r, Fields[c]) ELSE r, {focus.on})
    /\ UNCHANGED <<disk, unrest>>

\* The options are read in one round trip, and one of them picked in another;
\* picking one that is gone leaves none picked.
ReadOptions(c) ==
    /\ ActingAt(c, "options")
    /\ IF ~el[Field(c)].alive \/ 2 \notin el[Field(c)].options THEN ActionFails(c) ELSE ProceedsTo(c, "select")
    /\ PageRests

SelectOption(c) ==
    LET x == Field(c) found == 2 \in el[x].options IN
    /\ ActingAt(c, "select")
    /\ IF ~el[x].alive THEN ActionFails(c) /\ UNCHANGED el
       ELSE /\ el' = [el EXCEPT ![x].chosen = IF found THEN 2 ELSE Unset]
            /\ Moves(c, IF found THEN Filled(acting[c], Fields[c]) ELSE [acting[c] EXCEPT !.pc = "failed"], {x})
    /\ UNCHANGED <<focus, disk, unrest>>

-----------------------------------------------------------------------------
\* upload_file.

\* stat_upload: a regular file whose bytes are on this machine.
Readable == disk # "refused"

\* The file is asked about, and refused when it is too large.
StatUpload(c) ==
    /\ ActingAt(c, "stat")
    /\ IF Readable /\ disk # "large" THEN ProceedsTo(c, "read") ELSE ActionFails(c)
    /\ PageRests

\* Its bytes as they are when a thread reads them; the read may be an error, or
\* take longer than READ_TIMEOUT, and nobody then wants what the thread brings.
ReadUpload(c) ==
    /\ ActingAt(c, "read")
    /\ \/ disk # "refused" /\ Proceeds(c, [acting[c] EXCEPT !.pc = "attach", !.data = disk])
       \/ ActionFails(c)
    /\ PageRests

\* setFiles: the page makes a File of the bytes, in place of the one it had.
SetFiles(c) ==
    LET x == Field(c) IN
    /\ ActingAt(c, "attach")
    /\ IF ~el[x].alive \/ Kind[x] # "file" THEN ActionFails(c) /\ UNCHANGED el
       ELSE /\ el' = [el EXCEPT ![x].files = <<c, acting[c].data>>]
            /\ Moves(c, Filled(acting[c], Fields[c]), {x})
    /\ UNCHANGED <<focus, disk, unrest>>

\* The client gives the call up, or the server stops.
Cancelled(c) == c \in Cancels /\ Acting(c) /\ ProceedsTo(c, "cancelled") /\ PageRests

-----------------------------------------------------------------------------
\* The record of a call, written when it ends, whichever way (_timed, log_record).

\* A value may be kept for a target that resolved and does not look secret.
IsPlain(c, note) == note.resolved /\ note.uid \notin Secrets /\ c \notin Telling

\* Fault: a value is elided only when its field is known to be secret.
InClear_Unknown(c) ==
    {i \in 1..Len(Fields[c]) : Fields[c][i] \notin Secrets /\ c \notin Telling}

\* redact_args: the value of a form's field is judged by its own uid, that of a
\* fill by every target the call noted.
InClear(c) ==
    LET notes == Range(acting[c].notes) IN
    {i \in 1..Len(Fields[c]) :
        IF Tool[c] = "fill_form" THEN \E n \in notes : n.uid = Fields[c][i] /\ IsPlain(c, n)
        ELSE notes # {} /\ \A n \in notes : IsPlain(c, n)}

-----------------------------------------------------------------------------
\* The page moves, covers, removes or flips an element, drops an option, or
\* gives something else the focus.  Where a file input is concerns nobody.
PageActs ==
    /\ unrest > 0 /\ unrest' = unrest - 1
    /\ \E x \in Elements :
        LET Now(e) == el' = [el EXCEPT ![x] = e] /\ UNCHANGED focus
            Unsettles == acting' = [c \in Calls |-> IF Acting(c) /\ Field(c) = x
                                     THEN [acting[c] EXCEPT !.still = FALSE] ELSE acting[c]]
            Disturbs(xs) == acting' = [c \in Calls |-> IF Acting(c) /\ Field(c) \in xs
                                     THEN [acting[c] EXCEPT !.calm = FALSE] ELSE acting[c]] IN
        \/ Unsettles /\ \/ Kind[x] # "file" /\ Now([el[x] EXCEPT !.place = 1 - @])
                        \/ Kind[x] # "file" /\ Now([el[x] EXCEPT !.covered = ~@])
                        \/ Now([el[x] EXCEPT !.alive = FALSE])
        \/ Disturbs({x}) /\ \/ Kind[x] \in {"toggle", "radio"} /\ Now([el[x] EXCEPT !.checked = ~@])
                            \/ Kind[x] = "select" /\ Now([el[x] EXCEPT !.options = {1}])
        \/ Disturbs(TextFields) /\ focus' = [on |-> x, all |-> FALSE] /\ UNCHANGED el
    /\ UNCHANGED disk

\* Another program writes the file, removes it or puts it back, while it matters.
DiskActs ==
    /\ unrest > 0 /\ unrest' = unrest - 1
    /\ \E c \in Calls : ActingAt(c, "stat") \/ ActingAt(c, "read")
    /\ disk' \in {"small", "large", "refused"} \ {disk}
    /\ UNCHANGED <<el, focus, acting>>

ActionStep(c) ==
    \/ Start(c) \/ Locate(c) \/ Look(c) \/ Measured(c)
    \/ Click(c) \/ Clicked(c)
    \/ PrepareFill(c) \/ Delete(c) \/ Type(c)
    \/ ReadOptions(c) \/ SelectOption(c)
    \/ StatUpload(c) \/ ReadUpload(c) \/ SetFiles(c) \/ Cancelled(c)

ActionNext == PageActs \/ DiskActs \/ \E c \in Calls : ActionStep(c)
ActionSpec == ActionInit /\ [][ActionNext]_actionVars

-----------------------------------------------------------------------------
\* A click comes down on the element it names, where it was by the last look: it
\* misses, or hits what covers the element, only if the page moved or covered it
\* after that look (actions.py:210 looks again before it clicks a toggle).
ClicksWhatItNames ==
    [][\A c \in Calls : ActingAt(c, "click") /\ acting'[c].pc = "clicked" /\ acting[c].still =>
           acting'[c].hit]_actionVars

\* The first n keys of its value.
Typed(c, n) == [i \in 1..n |-> c]

\* Whether x is in the page as the fill of c asked.
AsAsked(page, c, x) == CASE Kind[x] = "text" -> page[x].text = Typed(c, Keys)
                         [] Kind[x] = "select" -> page[x].chosen = 2
                         [] Kind[x] = "file" -> page[x].files = <<c, acting[c].data>>
                         [] OTHER -> page[x].checked = Wanted[c]

\* A field told as filled has what its value asked for: its text is the one typed,
\* its option picked, its box in the state wanted, its file the bytes whose size the
\* answer tells, unless since it was measured someone else set it or took the focus,
\* or a click of it missed.  A checkbox is "clicked to reach the state
\* value asks for" (tools/fill.py:31).
FilledAsAsked ==
    [][\A c \in Calls :
           /\ Tool[c] # "click" /\ acting'[c].wrote # acting[c].wrote
           /\ acting[c].calm /\ (ActingAt(c, "clicked") => acting[c].hit)
           => AsAsked(el', c, Field(c))]_actionVars

\* A form that fails has filled every field before the one its error names and typed
\* into none of the others (tools/fill_form.py:53), unless something else had the focus
\* when it typed; an upload that fails has left every input its file.
FailureNamesTheField ==
    \A c \in Calls : ActingAt(c, "failed") =>
        /\ acting[c].wrote = 1..(acting[c].at - 1)
        /\ \A x \in Elements \ {Fields[c][i] : i \in acting[c].wrote} :
               ~acting[c].strayed => c \notin Range(el[x].text)
        /\ Tool[c] = "upload_file" =>
               \A x \in Elements : el[x].files = <<>> \/ el[x].files[1] # c

\* The fields whose value the call knew to be wanted there: those it measured.
Found(c) == acting[c].wrote \cup (IF acting[c].aim # Unset THEN {acting[c].at} ELSE {})

\* A value is on record in clear exactly for the fields the call found that nothing
\* says are secret: never for one it did not get to or could not find, wherever it
\* failed or was cancelled, and always for the others (tools/_secrets.py:101).
RecordsWhatItMay ==
    \A c \in Calls : Ended(c) /\ Tool[c] \in {"fill", "fill_form"} =>
        {Fields[c][i] : i \in InClear(c)} =
            IF c \in Telling THEN {} ELSE {Fields[c][i] : i \in Found(c)} \ Secrets
=============================================================================
