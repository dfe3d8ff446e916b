-------------------------- MODULE WorkflowTemplates --------------------------
(***************************************************************************)
(* The templates and versions of nano-pulse-workflows: the requests that   *)
(* WorkflowTemplateServiceImpl serves, many at a time, over the collections*)
(* "workflow_templates" and "workflow_versions" of MongoDB.                *)
(*                                                                         *)
(* A repository call is one step.  WorkflowTemplate has an optimistic lock *)
(* (@Version Long version): a save whose version is not null is an update  *)
(* of the document with that _id and that version, increments the version, *)
(* and throws when there is no such document.  WorkflowVersion has none.   *)
(* The unique indexes both declare are never created, as in AuthAccounts.  *)
(*                                                                         *)
(* What a request creates, a template or a version, is named by it.        *)
(***************************************************************************)
EXTENDS Naturals

CONSTANTS
    Requests,
    Templates,      \* the _id's of templates put there by other means
    SeedVersions,   \* what the version field of such a template may be,
    SeedHistories   \* and the version numbers it may come with

ASSUME WorkflowConstants ==
    /\ Templates \cap Requests = {} /\ {"seed", "nobody"} \cap Requests = {}
    /\ SeedVersions \subseteq Nat
    /\ \A H \in SeedHistories : H \subseteq Nat

VARIABLES
    op, target,     \* what each request asks for, and of which template
    template,       \* the template documents
    versions,       \* the version documents
    pc,             \* where a request is
    doc,            \* the document it loaded or is to save
    latest,         \* the version number it found
    unseen,         \* history: saves of its template since it loaded it,
    before,         \*          the requests finished before it began,
    excused         \*          and those told what was wrong with them or with a call

inputVars   == <<op, target>>
historyVars == <<unseen, before, excused>>
vars        == <<inputVars, template, versions, pc, doc, latest, historyVars>>

Seed    == "seed"
Creates == {"create", "clone", "import"}
Toggles == {"activate", "deactivate", "delete"}
PC      == {"start", "save", "findLatest", "deactivatePrevious", "saveVersion", "done", "error"}
Ids     == Templates \cup Requests
\* Of the content of a document only who wrote it.
Document == [by : Requests \cup {Seed}, isActive : BOOLEAN, version : Nat]
NoDoc    == [by |-> "nobody", isActive |-> FALSE, version |-> 0]

Id(r)         == IF op[r] \in Creates THEN r ELSE target[r]
VersionsOf(t) == {v \in versions : v.templateId = t}
Finished      == {r \in Requests : pc[r] \in {"done", "error"}}
\* The versions that were there when the request began.
Older(r)      == {v \in VersionsOf(Id(r)) : v.by \in before[r] \cup {Seed}}

TypeOK ==
    /\ op \in [Requests -> Creates \cup Toggles \cup {"update"}]
    /\ target \in [Requests -> Templates]
    /\ template \in [Ids -> Document \cup {NoDoc}]
    /\ versions \subseteq [by : Requests \cup {Seed}, templateId : Ids, versionNumber : Nat]
    /\ pc \in [Requests -> PC]
    /\ doc \in [Requests -> Document \cup {NoDoc}]
    /\ latest \in [Requests -> Nat]
    /\ unseen \in [Requests -> Nat]
    /\ before \in [Requests -> SUBSET Requests]
    /\ excused \subseteq Requests

Init ==
    /\ op \in [Requests -> Creates \cup Toggles \cup {"update"}]
    /\ target \in [Requests -> Templates]
    /\ \E seeded \in SUBSET Templates :
         /\ template \in [Ids -> [by : {Seed}, isActive : BOOLEAN, version : SeedVersions]
                                  \cup {NoDoc}]
         /\ \A i \in Ids : template[i] # NoDoc <=> i \in seeded
         /\ \E history \in [seeded -> SeedHistories] :
              versions = UNION {[by : {Seed}, templateId : {t}, versionNumber : history[t]] :
                                  t \in seeded}
    /\ pc = [r \in Requests |-> "start"]
    /\ doc = [r \in Requests |-> NoDoc]
    /\ latest = [r \in Requests |-> 0]
    /\ unseen = [r \in Requests |-> 0]
    /\ before = [r \in Requests |-> {}]
    /\ excused = {}

Goto(r, label) == pc' = [pc EXCEPT ![r] = label]
Begin(r)       == pc[r] = "start" /\ before' = [before EXCEPT ![r] = Finished]
Refuse(r)      == Goto(r, "error") /\ excused' = excused \cup {r}

-----------------------------------------------------------------------------
(* The template *)

\* A template of the request, with version 0: from the body once it is valid, from
\* the JSON once it is parsed.  toWorkflowTemplate leaves isActive false.
New(r, active) == [by |-> r, isActive |-> active, version |-> 0]

CreateOrImport(r) ==
    /\ Begin(r) /\ op[r] \in {"create", "import"}
    /\ \/ Refuse(r) /\ UNCHANGED doc
       \/ /\ Goto(r, "save") /\ UNCHANGED excused
          /\ \E active \in BOOLEAN :
               /\ op[r] = "create" => ~active
               /\ doc' = [doc EXCEPT ![r] = New(r, active)]
    /\ UNCHANGED <<inputVars, template, versions, latest, unseen>>

\* The document each request saves in place of the one it loaded, t.
Changed(r, t) ==
    CASE op[r] = "clone"      -> New(r, t.isActive)
      [] op[r] = "update"     -> [by |-> r, isActive |-> FALSE, version |-> t.version + 1]
      [] op[r] = "activate"   -> [t EXCEPT !.isActive = TRUE]
      [] OTHER                -> [t EXCEPT !.isActive = FALSE]

\* findById, or ResourceNotFoundException; an update is then validated.
Load(r) ==
    /\ Begin(r) /\ op[r] \notin {"create", "import"}
    /\ IF template[target[r]] = NoDoc
         THEN Refuse(r) /\ UNCHANGED doc
         ELSE \/ /\ Goto(r, "save") /\ UNCHANGED excused
                 /\ doc' = [doc EXCEPT ![r] = Changed(r, template[target[r]])]
              \/ op[r] = "update" /\ Refuse(r) /\ UNCHANGED doc
    /\ UNCHANGED <<inputVars, template, versions, latest, unseen>>

NoLock(r) == template[Id(r)] # NoDoc

\* The optimistic lock.
LockHolds(r) == template[Id(r)] # NoDoc /\ template[Id(r)].version = doc[r].version

\* What a request does once its template is saved.
AfterSave(r) ==
    CASE op[r] \in Toggles -> "done"
      [] op[r] = "update"  -> "findLatest"
      [] OTHER             -> "saveVersion"

Save(r) ==
    /\ pc[r] = "save"
    /\ IF LockHolds(r)
         THEN /\ template' = [template EXCEPT ![Id(r)] = [doc[r] EXCEPT !.version = @ + 1]]
              /\ unseen' = [q \in Requests |->
                    IF q # r /\ pc[q] = "save" /\ Id(q) = Id(r) THEN unseen[q] + 1 ELSE unseen[q]]
              /\ Goto(r, AfterSave(r))
         ELSE Goto(r, "error") /\ UNCHANGED <<template, unseen>>
    /\ UNCHANGED <<inputVars, versions, doc, latest, before, excused>>

-----------------------------------------------------------------------------
(* Its versions *)

\* Both methods of WorkflowVersionRepository carry a @Query without a limit and
\* return no collection: more than one document is
\* IncorrectResultSizeDataAccessException.
TooMany(t) == \E v, w \in VersionsOf(t) : v # w

FindNone(r) ==
    /\ pc[r] = "findLatest"
    /\ Goto(r, IF TooMany(Id(r)) THEN "error" ELSE "deactivatePrevious")
    /\ UNCHANGED <<inputVars, template, versions, doc, latest, historyVars>>

\* findTopByTemplateIdOrderByVersionNumberDesc, or 0.
FindLatest(r) ==
    /\ pc[r] = "findLatest"
    /\ IF TooMany(Id(r))
         THEN Goto(r, "error") /\ UNCHANGED latest
         ELSE /\ Goto(r, "deactivatePrevious")
              /\ latest' = [latest EXCEPT ![r] =
                    IF VersionsOf(Id(r)) = {} THEN 0
                    ELSE (CHOOSE v \in VersionsOf(Id(r)) : TRUE).versionNumber]
    /\ UNCHANGED <<inputVars, template, versions, doc, historyVars>>

\* deactivatePreviousVersions is a query as well, with no @Update: it deactivates
\* nothing, and every version document has isActive true for ever.
DeactivatePrevious(r) ==
    /\ pc[r] = "deactivatePrevious"
    /\ Goto(r, IF TooMany(Id(r)) THEN "error" ELSE "saveVersion")
    /\ UNCHANGED <<inputVars, template, versions, doc, latest, historyVars>>

SaveNoVersion(r) ==
    /\ pc[r] = "saveVersion"
    /\ Goto(r, "done")
    /\ UNCHANGED <<inputVars, template, versions, doc, latest, historyVars>>

SaveVersion(r) ==
    /\ pc[r] = "saveVersion"
    /\ versions' = versions \cup
         {[by |-> r, templateId |-> Id(r), versionNumber |-> latest[r] + 1]}
    /\ Goto(r, "done")
    /\ UNCHANGED <<inputVars, template, doc, latest, historyVars>>

\* A repository call throws.  What it was to write may have been written: that is
\* the step and then this one, but for the last save of a request, whose lost
\* answer is not told from the one that arrives.
RequestFails(r) ==
    /\ pc[r] # "start" /\ r \notin Finished
    /\ Refuse(r)
    /\ UNCHANGED <<inputVars, template, versions, doc, latest, unseen, before>>

Next == \E r \in Requests :
    \/ CreateOrImport(r) \/ Load(r) \/ Save(r)
    \/ FindLatest(r) \/ DeactivatePrevious(r) \/ SaveVersion(r)
    \/ RequestFails(r)

Spec == Init /\ [][Next]_vars

-----------------------------------------------------------------------------
(* Properties *)

\* What the javadoc of WorkflowTemplateService promises, "Create a new workflow
\* template" and the rest: a request ends in an error only for what is wrong with
\* it, for a call that fails or, by the lock, for a save it has not seen.  Not so:
\* create, clone and import set the version to 0 on a new _id, which the lock takes
\* for a document that is there, and an update increments the version itself.
ErrorsAreEarned ==
    \A r \in Requests : pc[r] = "error" => r \in excused \/ unseen[r] > 0

\* An activation, deactivation or deletion that succeeds saved over the document it
\* loaded: it undid no save that came in between.
NoSaveLost ==
    \A r \in Requests : op[r] \in Toggles /\ pc[r] = "done" => unseen[r] = 0

\* Whole documents are saved, but an activation or deletion that loaded an older
\* one brings no older content back.
NoContentReturns ==
    [][\A t \in Templates : template'[t].by # template[t].by =>
          \E r \in Requests : /\ template'[t].by = r
                              /\ op[r] = "update" /\ pc[r] = "save"]_vars

\* The content of a template is recorded in a version, unless the update that
\* wrote it is still under way or was answered with an error.
ContentHasVersion ==
    \A t \in Templates, r \in Requests : template[t].by = r /\ pc[r] = "done" =>
        \E v \in VersionsOf(t) : v.by = r

\* "Sequential version number": a version has a higher number than those that were
\* there when its update began; equal numbers come from updates that overlap.
NumberedInOrder ==
    \A v \in versions : v.by # Seed =>
        \A w \in Older(v.by) : w.versionNumber < v.versionNumber
=============================================================================
