------------------------------ MODULE Projects ------------------------------
(***************************************************************************)
(* Project blueprints and the runs of a command-line tool for them:        *)
(* routes/projects.ts.                                                     *)
(***************************************************************************)
EXTENDS Applications

CONSTANT Devices

\* A row of project_runs.
LaunchRecord ==
    [rev : Nat, blueprint : Ids, state : {"APPROVAL_REQUIRED", "RUNNING", "VERIFYING", "FAILED"},
     launch : {"NOT_CLAIMED", "CLAIMED", "STARTED", "UNKNOWN", "FINISHED"},
     approval : Ids \cup {Nil}, device : Devices \cup {Nil}]

ASSUME ProjectAssumption == Nil \notin LaunchRecord

Blueprint(state) == [rev |-> 1, state |-> state]
Run(b) == [rev |-> 1, blueprint |-> b, state |-> "APPROVAL_REQUIRED", launch |-> "NOT_CLAIMED",
           approval |-> Nil, device |-> Nil]

ProjectTables == [blueprint |-> NoRows, run |-> NoRows]

-----------------------------------------------------------------------------
SelectProject(r) ==
    Load(r, "selectProject", "blueprint", LAMBDA row : row.state \in {"DRAFT", "SELECTED"}, "selectRow")

SelectRow(r) == At(r, "selectRow") /\ Save(r, "blueprint", [req[r].v EXCEPT !.state = "SELECTED"])

CreateRun(r) ==
    Load(r, "createRun", "blueprint", LAMBDA row : row.state \in {"SELECTED", "IN_PROGRESS"}, "runGuard")

\* The statement: what its first part sees of the blueprint, then the rows.
\* The run is inserted, whether the blueprint then moves or not.
RunGuard(r) ==
    /\ At(r, "runGuard")
    /\ IF req[r].v.state = "SELECTED" /\ ~Same("blueprint", req[r].arg.id, req[r].v) THEN Refuse(r)
       ELSE GoOn(r, "runRows", req[r].v)

RunRows(r) ==
    /\ At(r, "runRows")
    /\ LET b == req[r].arg.id  ran == [db EXCEPT !.run[r] = Run(b)] IN
       IF req[r].v.state = "IN_PROGRESS" THEN End(r, ran)
       ELSE IF ~Same("blueprint", b, req[r].v) THEN Do(r, "refused", Nil, ran)
       ELSE End(r, [ran EXCEPT !.blueprint[b] = Bumped([@ EXCEPT !.state = "IN_PROGRESS"])])

-----------------------------------------------------------------------------
(***************************************************************************)
(* startRun.                                                               *)
(***************************************************************************)

StartRun(r) == Load(r, "startRun", "run", LAMBDA row : row.state = "APPROVAL_REQUIRED", "startCheck")

StartCheck(r) ==
    /\ At(r, "startCheck")
    /\ IF Covers(req[r].arg.approval, "execute", req[r].arg.id)
       THEN GoOn(r, "spend", [run |-> req[r].v, approval |-> db.approval[req[r].arg.approval]])
       ELSE Refuse(r)

SpendStart(r) == req[r].do = "startRun" /\ At(r, "spend") /\ Spend(r, "run", req[r].v.run)

StartRows(r) ==
    /\ req[r].do = "startRun" /\ At(r, "spendRows")
    /\ LET a == req[r].arg.approval  i == req[r].arg.id
           spent == [db EXCEPT !.approval[a] = Consumed(a)] IN
       IF ~Same("approval", a, req[r].v.approval) THEN Refuse(r)
       ELSE IF ~Same("run", i, req[r].v.run) THEN Do(r, "refused", Nil, spent)
       ELSE End(r, [spent EXCEPT !.run[i] =
                        Bumped([@ EXCEPT !.state = "RUNNING", !.approval = a,
                                         !.device = req[r].arg.device])])

-----------------------------------------------------------------------------
(***************************************************************************)
(* reportLaunch, recoverRun, reportResult, each by saveRun.                *)
(***************************************************************************)

SaveRun(r) == At(r, "saveRun") /\ Save(r, "run", req[r].v)

Report(r, handler, Fits(_), Next(_)) ==
    /\ At(r, handler)
    /\ LET row == db.run[req[r].arg.id] IN
       IF Fits(row) THEN GoOn(r, "saveRun", Next(row)) ELSE Refuse(r)

LaunchNext == {<<"NOT_CLAIMED", "CLAIMED">>, <<"CLAIMED", "STARTED">>, <<"CLAIMED", "UNKNOWN">>,
               <<"STARTED", "UNKNOWN">>}

ReportLaunch(r) ==
    Report(r, "reportLaunch",
           LAMBDA row : /\ row.state = "RUNNING" /\ row.device = req[r].arg.device
                        /\ \/ row.launch = req[r].arg.to
                           \/ <<row.launch, req[r].arg.to>> \in LaunchNext,
           LAMBDA row : [row EXCEPT !.launch = req[r].arg.to])

RecoverRun(r) ==
    Report(r, "recoverRun", LAMBDA row : row.launch = "UNKNOWN" /\ row.device = req[r].arg.device,
           LAMBDA row : IF req[r].arg.to = "REATTACH" THEN [row EXCEPT !.launch = "STARTED"]
                        ELSE [row EXCEPT !.launch = "FINISHED", !.state = "FAILED"])

ReportResult(r) ==
    Report(r, "reportResult", LAMBDA row : row.state = "RUNNING" /\ row.launch = "STARTED",
           LAMBDA row : [row EXCEPT !.launch = "FINISHED", !.state = req[r].arg.to])

-----------------------------------------------------------------------------
ArriveProject(r) ==
    \/ \E b \in Ids, h \in {"selectProject", "createRun"} : db.blueprint[b] # Nil /\ Begin(r, h, [id |-> b])
    \/ \E i \in Ids :
          /\ db.run[i] # Nil
          /\ \/ \E a \in Ids, dev \in Devices :
                    db.approval[a] # Nil /\ Begin(r, "startRun", [id |-> i, approval |-> a, device |-> dev])
             \/ \E dev \in Devices :
                   \/ \E to \in {"CLAIMED", "STARTED", "UNKNOWN"} :
                         Begin(r, "reportLaunch", [id |-> i, device |-> dev, to |-> to])
                   \/ \E to \in {"REATTACH", "MARK_FAILED"} :
                         Begin(r, "recoverRun", [id |-> i, device |-> dev, to |-> to])
             \/ \E to \in {"VERIFYING", "FAILED"} : Begin(r, "reportResult", [id |-> i, to |-> to])

ProjectStep(r) ==
    \/ ArriveProject(r) \/ SelectProject(r) \/ SelectRow(r) \/ CreateRun(r) \/ RunGuard(r) \/ RunRows(r)
    \/ StartRun(r) \/ StartCheck(r) \/ SpendStart(r) \/ StartRows(r) \/ SaveRun(r) \/ ReportLaunch(r)
    \/ RecoverRun(r) \/ ReportResult(r)

-----------------------------------------------------------------------------
(***************************************************************************)
(* What an approval is spent on.                                           *)
(***************************************************************************)

\* A handler spent an approval on a row that another writer was changing.
Lost(handler, row, writers) ==
    \E r \in Doing(handler) : req[r].arg.id = row /\ MetAny(r, writers)
LostAll(handler, row, writers) == Lost(handler, row, writers) /\ \E r \in Doing(handler) : At(r, "refused")

\* An approval is consumed once and for what it is of: a finalization of its
\* version, one submission of its draft, by which the application has applied,
\* or the start of its run; and none of these is without an approval of its
\* own.  What is submitted had been finalized.  The exception: its snapshot
\* still shows the revision that another writer of the row is taking away, and
\* the approval is spent on nothing.
SpentApprovals ==
    /\ \A w \in {i \in Ids : db.version[i] # Nil} :
          \/ Cardinality({a \in Approvals("finalize", "CONSUMED") : db.approval[a].target = w})
             = Cardinality({e \in Ids : db.finalized[e] = w})
          \/ LostAll("finalize", db.version[w].document, DocumentWriters)
    /\ \A a \in Approvals("submit", "CONSUMED") :
          Cardinality({s \in Ids : db.submission[s] # Nil /\ db.submission[s].approval = a}) = 1
    /\ \A s \in {i \in Ids : db.submission[i] # Nil} :
          LET sub == db.submission[s] IN
          /\ sub.approval \in Approvals("submit", "CONSUMED")
          /\ db.approval[sub.approval].target = sub.draft
          /\ \E e \in Ids : db.finalized[e] = db.draft[sub.draft].version
          /\ \/ Applied(db.application[sub.application].stage)
             \/ Lost("submit", sub.application, {"patchApplication"})
    /\ \A a \in Approvals("execute", "CONSUMED") :
          \/ db.run[db.approval[a].target].approval = a
          \/ LostAll("startRun", db.approval[a].target, {"startRun"})
    /\ \A i \in {j \in Ids : db.run[j] # Nil} :
          LET run == db.run[i] IN
          /\ run.state = "APPROVAL_REQUIRED" <=> run.approval = Nil
          /\ run.approval # Nil => /\ run.approval \in Approvals("execute", "CONSUMED")
                                   /\ db.approval[run.approval].target = i
=============================================================================
