---------------------------- MODULE MigrationWizard ----------------------------
(***************************************************************************)
(* MigrationWizard.tsx of apps/web: choosing two connections, the preview, *)
(* validation, script and run of a migration, whose calls answer late, and *)
(* the event stream of the run.  The run on the server is DataMigration's; *)
(* here it is only known to go on until it ends.                           *)
(***************************************************************************)
EXTENDS Naturals, FiniteSets

CONSTANTS Connections,  \* active connections of an engine that can be migrated
          Engine,       \* Engine[c]
          BaseTables,   \* BaseTables[c]: the base tables of c
          MaxEdits,     \* bound: changes of selection and options
          MaxRuns,      \* bound: runs started
          NONE

VARIABLES step, sourceId, targetId,
          plan,      \* the plan shown: of which pair
          selected, conflict,
          call,      \* call[k]: the payload of the pending call of kind k
          validationReport, \* the validation report shown: its payload and verdict
          dialog,    \* the confirm dialog: the payload to run and the target it names
          runs,      \* how many runs were asked for
          running,   \* the wizard shows a run going on
          shown,     \* the run whose outcome is shown, 0 for none
          streams,   \* the runs whose events are read
          server,    \* the runs that go on at the server
          edits,
          late,      \* history: what a pending call was made for has changed
          moved      \* history: an answer came while a run was shown
pair == <<sourceId, targetId>>
options == <<selected, conflict>>
answers == <<plan, validationReport>>
run == <<runs, running, shown, streams, server>>
history == <<edits, late, moved>>
wizardVars == <<step, pair, options, answers, call, dialog, run, history>>

Kinds == {"plan", "script", "validate"}
Conflicts == {"skip", "truncate"}

\* The payload of the render in which a button is pressed: the selected
\* tables of the plan, with the connections chosen now.  Whether missing
\* tables are created is left out.
Payload == [source |-> sourceId, target |-> targetId, conflict |-> conflict,
            tables |-> IF plan = NONE THEN {} ELSE selected \cap BaseTables[plan.source]]

Pending(k) == call[k] # NONE
AnyPending == \E k \in Kinds : Pending(k)
\* A first choice of the two connections is not counted.
Edit(first) == /\ first \/ edits < MaxEdits
               /\ edits' = (IF first THEN edits ELSE edits + 1)
               /\ late' = (late \/ AnyPending) /\ moved' = moved

WizardInit ==
    /\ step = "select" /\ sourceId = NONE /\ targetId = NONE
    /\ selected = {} /\ conflict = "skip"
    /\ plan = NONE /\ validationReport = NONE
    /\ call = [k \in Kinds |-> NONE] /\ dialog = NONE
    /\ runs = 0 /\ running = FALSE /\ shown = 0 /\ streams = {} /\ server = {}
    /\ edits = 0 /\ late = FALSE /\ moved = FALSE

-----------------------------------------------------------------------------
(* Step 1: the connections                                                 *)

\* ConnectionPicker: not the other one, and of its engine if there is one.
Offered(other) == {c \in Connections : c # other /\ (other # NONE => Engine[c] = Engine[other])}

AtSelect == step = "select" /\ dialog = NONE

SelectSource ==
    /\ AtSelect /\ sourceId' \in (Offered(targetId) \cup {NONE}) \ {sourceId} /\ targetId' = targetId
    /\ Edit(sourceId = NONE)
    /\ UNCHANGED <<step, options, answers, call, dialog, run>>

\* Mutant: the target may be chosen at any step.
SelectTargetAnytime ==
    /\ dialog = NONE /\ targetId' \in (Offered(sourceId) \cup {NONE}) \ {targetId} /\ sourceId' = sourceId
    /\ Edit(targetId = NONE)
    /\ UNCHANGED <<step, options, answers, call, dialog, run>>

SelectTarget ==
    /\ AtSelect /\ targetId' \in (Offered(sourceId) \cup {NONE}) \ {targetId} /\ sourceId' = sourceId
    /\ Edit(targetId = NONE)
    /\ UNCHANGED <<step, options, answers, call, dialog, run>>

\* A call is sent while none of its kind is pending.
Send(k, payload) ==
    /\ dialog = NONE /\ ~Pending(k)
    /\ call' = [call EXCEPT ![k] = payload]
    /\ UNCHANGED <<step, pair, options, answers, dialog, run, history>>

CanPreview == AtSelect /\ sourceId # NONE /\ targetId # NONE /\ sourceId # targetId
Preview == CanPreview /\ Send("plan", [source |-> sourceId, target |-> targetId])

-----------------------------------------------------------------------------
(* Step 2: tables and options                                              *)

AtConfigure == step = "configure" /\ plan # NONE /\ dialog = NONE

Toggle == \E t \in BaseTables[plan.source] : selected' = (selected \ {t}) \cup ({t} \ selected)
SelectAll == selected' \in {{}, BaseTables[plan.source]} \ {selected}

Configure ==
    /\ AtConfigure /\ Edit(FALSE)
    /\ \/ (Toggle \/ SelectAll) /\ UNCHANGED conflict
       \/ conflict' \in Conflicts \ {conflict} /\ UNCHANGED selected
    /\ UNCHANGED <<step, pair, answers, call, dialog, run>>

CanSubmit == AtConfigure /\ Payload.tables # {}
Validate == CanSubmit /\ Send("validate", Payload)

AtValidate == step = "validate" /\ validationReport # NONE /\ dialog = NONE

GenerateScript == (CanSubmit \/ AtValidate) /\ Send("script", "asked")

\* The arrows back.
Back ==
    /\ dialog = NONE
    /\ \/ step = "configure" /\ step' = "select"
       \/ step \in {"validate", "script"} /\ step' = "configure"
    /\ UNCHANGED <<pair, options, answers, call, dialog, run, history>>

-----------------------------------------------------------------------------
(* Answers, whenever they come, and where they lead                        *)

\* History: whether a run was shown, or its question asked.
Settle(k) == /\ call' = [call EXCEPT ![k] = NONE]
             /\ edits' = edits /\ moved' = (moved \/ step = "run" \/ dialog # NONE)

\* The selection starts anew.
PlanArrives ==
    /\ Pending("plan") /\ Settle("plan") /\ late' = (late \/ Pending("validate"))
    /\ plan' = call["plan"] /\ selected' = BaseTables[call["plan"].source] /\ step' = "configure"
    /\ UNCHANGED <<pair, conflict, validationReport, dialog, run>>

ScriptArrives ==
    /\ Pending("script") /\ Settle("script") /\ late' = late
    /\ step' = "script"
    /\ UNCHANGED <<pair, options, plan, validationReport, dialog, run>>

ReportArrives ==
    /\ Pending("validate") /\ Settle("validate") /\ late' = late
    /\ \E proceed \in BOOLEAN : validationReport' = [of |-> call["validate"], proceed |-> proceed]
    /\ step' = "validate"
    /\ UNCHANGED <<pair, options, plan, dialog, run>>

CallFails(k) ==
    /\ Pending(k) /\ call' = [call EXCEPT ![k] = NONE]
    /\ UNCHANGED <<step, pair, options, answers, dialog, run, history>>

-----------------------------------------------------------------------------
(* Step 3: the run                                                         *)

CanRun == AtValidate /\ validationReport.proceed

\* The dialog names the target of the plan.
AskRun ==
    /\ CanRun
    /\ dialog' = [payload |-> Payload, names |-> plan.target, report |-> validationReport, late |-> late]
    /\ UNCHANGED <<step, pair, options, answers, call, run, history>>

Refuse ==
    /\ dialog # NONE /\ dialog' = NONE
    /\ UNCHANGED <<step, pair, options, answers, call, run, history>>

\* With skipValidation: the server does not validate again.
StartRun ==
    /\ dialog # NONE /\ runs < MaxRuns
    /\ runs' = runs + 1 /\ dialog' = NONE
    /\ server' = server \cup {runs'} /\ streams' = streams \cup {runs'}
    /\ step' = "run" /\ running' = TRUE /\ shown' = 0
    /\ UNCHANGED <<pair, options, answers, call, history>>

Quiet == UNCHANGED <<step, pair, options, answers, call, dialog, runs, history>>

\* The last event of a run, done or error, whichever run the wizard shows.
RunEnds(n) ==
    /\ n \in server /\ server' = server \ {n} /\ streams' = streams \ {n}
    /\ IF n \in streams THEN running' = FALSE /\ shown' = n ELSE UNCHANGED <<running, shown>>
    /\ Quiet

\* The stream ends without it: the reader takes a connection that is closed
\* for the end, and loses an event whose two lines come in two chunks.
EndLost(n) ==
    /\ n \in streams /\ streams' = streams \ {n} /\ server' = server \ {n}
    /\ UNCHANGED <<running, shown>> /\ Quiet

\* Cancel stops the reading of the last run; the server is not told.
Cancel ==
    /\ step = "run" /\ running
    /\ streams' = streams \ {runs} /\ running' = FALSE
    /\ UNCHANGED <<shown, server>> /\ Quiet

\* Mutant: the wizard is only hidden, its streams are read on.
CloseHides ==
    /\ dialog = NONE /\ edits < MaxEdits
    /\ step' = "select" /\ sourceId' = NONE /\ targetId' = NONE
    /\ selected' = {} /\ conflict' = "skip"
    /\ plan' = NONE /\ validationReport' = NONE /\ call' = [k \in Kinds |-> NONE]
    /\ running' = FALSE /\ shown' = 0
    /\ edits' = edits + 1 /\ late' = FALSE /\ moved' = FALSE
    /\ UNCHANGED <<dialog, runs, server, streams>>

\* Done, or the cross: the wizard is gone, and opened again it is new.  Of
\* its calls and streams nobody hears again.
Close ==
    /\ dialog = NONE /\ edits < MaxEdits
    /\ step' = "select" /\ sourceId' = NONE /\ targetId' = NONE
    /\ selected' = {} /\ conflict' = "skip"
    /\ plan' = NONE /\ validationReport' = NONE /\ call' = [k \in Kinds |-> NONE]
    /\ running' = FALSE /\ shown' = 0 /\ streams' = {}
    /\ edits' = edits + 1 /\ late' = FALSE /\ moved' = FALSE
    /\ UNCHANGED <<dialog, runs, server>>

Press == SelectSource \/ SelectTarget \/ Preview \/ Configure \/ Validate \/ GenerateScript \/ Back
         \/ AskRun \/ Refuse \/ StartRun \/ Cancel \/ Close
Answer == PlanArrives \/ ScriptArrives \/ ReportArrives \/ \E k \in Kinds : CallFails(k)
WizardNext == Press \/ Answer \/ \E n \in 1..MaxRuns : RunEnds(n) \/ EndLost(n)

WizardSpec == WizardInit /\ [][WizardNext]_wizardVars

-----------------------------------------------------------------------------
(* Properties                                                              *)

\* What validation looks at.
Checked(p) == [source |-> p.source, target |-> p.target, tables |-> p.tables, truncates |-> p.conflict = "truncate"]

\* handleRun(true): the server is told not to validate because a report says
\* proceed.  It was made for exactly these tables, connections and mode, and
\* the user was asked about the database that is written, unless something
\* was changed while the preview or the validation was on its way.
RunWasValidated ==
    [][runs' > runs /\ ~dialog.late =>
        /\ dialog.report.proceed
        /\ Checked(dialog.report.of) = Checked(dialog.payload)
        /\ dialog.names = dialog.payload.target]_wizardVars

\* "All existing rows in the selected tables on <target> are deleted": the
\* dialog names the database that is written.
ConfirmNamesTarget == dialog # NONE => dialog.names = dialog.payload.target

\* setReport, setRunning: the outcome shown is that of the run started last,
\* unless a late answer led away from a run that was going on.
OutcomeOfLastRun == (shown # 0 /\ ~moved) => shown = runs
=============================================================================
