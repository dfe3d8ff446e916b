---------------------- MODULE WorkflowTemplatesProofs ----------------------
(***************************************************************************)
(* For any requests, templates and versions they come with: which saves    *)
(* the optimistic lock lets through, and what the history of a template    *)
(* holds, however the requests interleave.                                 *)
(***************************************************************************)
EXTENDS WorkflowTemplates, TLAPS

Saved == {"findLatest", "deactivatePrevious", "saveVersion"}
Own(r) == IF op[r] = "update" THEN 1 ELSE 0

\* No request makes a template: the lock takes version 0 for one that is there.
OnlySeeded == \A r \in Requests : template[r] = NoDoc

\* Only an update gets past the save, to record a version.
Routes ==
    \A r \in Requests :
        /\ pc[r] \in Saved => op[r] = "update"
        /\ pc[r] = "done" => op[r] \notin Creates

\* What a request is to save, beside what was saved since it was loaded.
Loaded ==
    \A r \in Requests :
      /\ pc[r] = "start" => unseen[r] = 0
      /\ pc[r] = "save" /\ op[r] \notin Creates =>
        /\ template[target[r]] # NoDoc /\ doc[r] # NoDoc
        /\ template[target[r]].version + Own(r) = doc[r].version + unseen[r]
        /\ op[r] = "update" => doc[r].by = r
        /\ op[r] # "update" /\ unseen[r] = 0 => doc[r].by = template[target[r]].by

\* Whoever wrote the content of a template is an update that was saved.
Authors ==
    \A t \in Templates, r \in Requests : template[t].by = r =>
        op[r] = "update" /\ target[r] = t /\ pc[r] \in Saved \cup {"done", "error"}

\* A version is recorded by the last step of an update, and only then.
Recorded ==
    /\ \A v \in versions : v.by # Seed =>
         /\ v.by \in Requests /\ pc[v.by] = "done" /\ op[v.by] = "update"
         /\ v.templateId = target[v.by]
    /\ \A r \in Requests : pc[r] = "done" /\ op[r] = "update" =>
         \E v \in versions : v.by = r /\ v.templateId = target[r]

\* An update that goes on found one older version at most, and its number.
Found ==
    \A r \in Requests : pc[r] \in {"deactivatePrevious", "saveVersion"} =>
        \A v, w \in Older(r) : v = w /\ v.versionNumber <= latest[r]

FinishedBefore == \A r \in Requests : before[r] \subseteq Finished

Inv ==
    /\ TypeOK /\ OnlySeeded /\ NoSaveLost /\ NumberedInOrder
    /\ Routes /\ Loaded /\ Authors /\ Recorded /\ Found /\ FinishedBefore

-----------------------------------------------------------------------------
LEMMA Names ==
    /\ Seed \notin Requests /\ "nobody" \notin Requests /\ NoDoc.by = "nobody"
    /\ \A t \in Templates : t \notin Requests /\ t \in Ids
    /\ \A r \in Requests : r \in Ids
BY WorkflowConstants DEF Seed, NoDoc, Ids

LEMMA IdOfRequest ==
    ASSUME TypeOK, NEW r \in Requests
    PROVE  /\ op[r] \in Creates => Id(r) = r
           /\ op[r] \notin Creates => Id(r) = target[r] /\ target[r] \in Templates
           /\ op[r] \in Creates \cup Toggles \cup {"update"}
           /\ Id(r) \in Ids /\ pc[r] \in PC
BY DEF TypeOK, Id, Ids

LEMMA InitInv == Init => Inv
<1> SUFFICES ASSUME Init PROVE Inv
    OBVIOUS
<1>1. PICK seeded \in SUBSET Templates : \E history \in [seeded -> SeedHistories] :
        versions = UNION {[by : {Seed}, templateId : {t}, versionNumber : history[t]] : t \in seeded}
    BY DEF Init
<1>0. PICK history \in [seeded -> SeedHistories] :
        versions = UNION {[by : {Seed}, templateId : {t}, versionNumber : history[t]] : t \in seeded}
    BY <1>1
<1>2. \A v \in versions : v \in [by : {Seed}, templateId : Ids, versionNumber : Nat]
    <2> SUFFICES ASSUME NEW t \in seeded,
                        NEW v \in [by : {Seed}, templateId : {t}, versionNumber : history[t]]
                 PROVE  v \in [by : {Seed}, templateId : Ids, versionNumber : Nat]
        BY <1>0
    <2>1. t \in Ids /\ history[t] \subseteq Nat
        BY <1>0, WorkflowConstants DEF Ids
    <2>2. QED
        BY <2>1
<1>3. \A i \in Ids : template[i] \in Document \cup {NoDoc} /\ template[i].by \in {Seed, "nobody"}
    <2>1. \A i \in Ids : template[i] \in [by : {Seed}, isActive : BOOLEAN, version : SeedVersions]
                                          \cup {NoDoc}
        BY DEF Init
    <2>2. QED
        BY <2>1, Names, WorkflowConstants DEF Document
<1>4. TypeOK
    <2>1. template \in [Ids -> Document \cup {NoDoc}]
        BY <1>3 DEF Init
    <2>2. versions \subseteq [by : Requests \cup {Seed}, templateId : Ids, versionNumber : Nat]
        BY <1>2
    <2>3. QED
        BY <2>1, <2>2 DEF Init, TypeOK, PC
<1>5. OnlySeeded
    <2> SUFFICES ASSUME NEW r \in Requests, template[r] # NoDoc PROVE FALSE
        BY DEF OnlySeeded
    <2>1. \E t \in Templates : r = t
        BY Names DEF Init
    <2>2. QED
        BY <2>1, Names
<1>6. \A r \in Requests : pc[r] = "start" /\ before[r] = {} /\ unseen[r] = 0
    BY DEF Init
<1>7. Routes /\ Loaded /\ Found /\ FinishedBefore /\ NoSaveLost
    BY <1>6 DEF Routes, Loaded, Found, FinishedBefore, NoSaveLost, Saved
<1>8. Authors /\ Recorded /\ NumberedInOrder
    BY <1>2, <1>3, <1>6, Names DEF Authors, Recorded, NumberedInOrder
<1>9. QED
    BY <1>4, <1>5, <1>7, <1>8 DEF Inv

-----------------------------------------------------------------------------
(* The steps *)

\* A request that stays unfinished, or ends in an error, and writes no document.
LEMMA PcStep ==
    ASSUME Inv, NEW r \in Requests, NEW label \in Saved \cup {"error"},
           pc[r] \in Saved \cup {"save"}, pc[r] = "save" => label = "error",
           Goto(r, label), latest' \in [Requests -> Nat],
           \A q \in Requests : q # r => latest'[q] = latest[q],
           label \in {"deactivatePrevious", "saveVersion"} =>
             \A v, w \in Older(r) : v = w /\ v.versionNumber <= latest'[r],
           excused' \subseteq Requests,
           UNCHANGED <<inputVars, template, versions, doc, unseen, before>>
    PROVE  Inv'
<1>1. /\ UNCHANGED <<op, target, template, versions, doc, unseen, before>>
      /\ pc \in [Requests -> PC] /\ pc' = [pc EXCEPT ![r] = label]
    BY DEF inputVars, Goto, Inv, TypeOK
<1>2. /\ \A q \in Requests : pc'[q] = IF q = r THEN label ELSE pc[q]
      /\ pc' \in [Requests -> PC]
    BY <1>1 DEF Saved, PC
<1>3. Finished' = Finished \cup (IF label = "error" THEN {r} ELSE {})
    BY <1>2 DEF Finished, Saved
<1>4. \A q \in Requests : Older(q)' = Older(q)
    BY <1>1 DEF Older, VersionsOf, Id
<1>5. TypeOK'
    BY <1>1, <1>2 DEF Inv, TypeOK
<1>6. OnlySeeded' /\ FinishedBefore'
    BY <1>1, <1>3 DEF Inv, OnlySeeded, FinishedBefore
<1>7. Routes' /\ Recorded'
    BY <1>1, <1>2 DEF Inv, Routes, Recorded, Saved
<1>8. NoSaveLost'
    BY <1>1, <1>2 DEF Inv, NoSaveLost, Saved
<1>9. Loaded' /\ Authors'
    BY <1>1, <1>2 DEF Inv, Loaded, Own, Authors, Saved
<1>10. NumberedInOrder'
    BY <1>1, <1>4 DEF Inv, NumberedInOrder, Recorded
<1>11. Found'
    BY <1>2, <1>4 DEF Inv, Found
<1>12. QED
    BY <1>5, <1>6, <1>7, <1>8, <1>9, <1>10, <1>11 DEF Inv

\* No request counts a version among the older ones that is recorded after it began.
LEMMA NotOlder ==
    ASSUME Inv, NEW r \in Requests, r \notin Finished, NEW q \in Requests
    PROVE  r \notin before[q] \cup {Seed}
BY Names DEF Inv, FinishedBefore

\* What an update, an activation and a deletion make of the document they load.
LEMMA ChangedDocument ==
    ASSUME TypeOK, NEW r \in Requests, op[r] \notin {"create", "import"}, NEW t \in Document
    PROVE  /\ Changed(r, t) \in Document
           /\ op[r] \notin Creates => Changed(r, t).version = t.version + Own(r)
           /\ op[r] = "update" => Changed(r, t).by = r
           /\ op[r] \notin Creates /\ op[r] # "update" => Changed(r, t).by = t.by
<1>1. t.by \in Requests \cup {Seed} /\ t.isActive \in BOOLEAN /\ t.version \in Nat
    BY DEF Document
<1>2. op[r] \in Creates \cup Toggles \cup {"update"}
    BY IdOfRequest
<1>3. CASE op[r] = "clone"
    <2>1. Changed(r, t) = [by |-> r, isActive |-> t.isActive, version |-> 0]
        BY <1>3 DEF Changed, New
    <2>2. QED
        BY <1>1, <1>3, <2>1 DEF Document, Creates
<1>4. CASE op[r] = "update"
    <2>1. Changed(r, t) = [by |-> r, isActive |-> FALSE, version |-> t.version + 1]
        BY <1>4 DEF Changed
    <2>2. QED
        BY <1>1, <1>4, <2>1 DEF Document, Creates, Own
<1>5. CASE op[r] \in Toggles
    <2>1. \E b \in BOOLEAN : Changed(r, t) = [t EXCEPT !.isActive = b]
        BY <1>5 DEF Changed, Toggles
    <2>2. PICK b \in BOOLEAN : Changed(r, t) = [t EXCEPT !.isActive = b]
        BY <2>1
    <2>3. Changed(r, t) \in Document /\ Changed(r, t).by = t.by
          /\ Changed(r, t).version = t.version
        BY <2>2 DEF Document
    <2>4. QED
        BY <1>1, <1>5, <2>3 DEF Creates, Toggles, Own
<1>6. QED
    BY <1>2, <1>3, <1>4, <1>5 DEF Creates

LEMMA BeginStep ==
    ASSUME Inv, NEW r \in Requests, CreateOrImport(r) \/ Load(r)
    PROVE  Inv'
<1>1. /\ UNCHANGED <<op, target, template, versions, latest, unseen>>
      /\ pc[r] = "start" /\ before' = [before EXCEPT ![r] = Finished]
      /\ excused' \subseteq Requests
    BY DEF CreateOrImport, Load, Begin, Refuse, inputVars, Inv, TypeOK
<1>2. PICK label \in {"save", "error"} :
        /\ pc' = [pc EXCEPT ![r] = label]
        /\ \/ label = "error" /\ doc' = doc
           \/ /\ label = "save" /\ op[r] \in {"create", "import"}
              /\ \E active \in BOOLEAN : doc' = [doc EXCEPT ![r] = New(r, active)]
           \/ /\ label = "save" /\ op[r] \notin {"create", "import"}
              /\ template[target[r]] # NoDoc
              /\ doc' = [doc EXCEPT ![r] = Changed(r, template[target[r]])]
    BY DEF CreateOrImport, Load, Refuse, Goto
<1>3. /\ \A q \in Requests : pc'[q] = IF q = r THEN label ELSE pc[q]
      /\ pc' \in [Requests -> PC]
    BY <1>2 DEF Inv, TypeOK, PC
<1>4. Finished \subseteq Finished'
    BY <1>1, <1>3 DEF Finished
<1>5. /\ before' \in [Requests -> SUBSET Requests]
      /\ \A q \in Requests : before'[q] = IF q = r THEN Finished ELSE before[q]
    BY <1>1 DEF Inv, TypeOK, Finished
<1>6. \A q \in Requests : q # r => Older(q)' = Older(q)
    BY <1>1, <1>5 DEF Older, VersionsOf, Id
<1>7. label = "save" /\ op[r] \notin {"create", "import"} =>
        LET t == template[target[r]] IN
        /\ t \in Document /\ Changed(r, t) \in Document
        /\ op[r] \notin Creates => Changed(r, t).version = t.version + Own(r)
        /\ op[r] = "update" => Changed(r, t).by = r
        /\ op[r] \notin Creates /\ op[r] # "update" => Changed(r, t).by = t.by
    <2>1. label = "save" /\ op[r] \notin {"create", "import"} => template[target[r]] \in Document
        BY <1>2, Names DEF Inv, TypeOK
    <2>2. QED
        BY <2>1, ChangedDocument DEF Inv
<1>8. doc' \in [Requests -> Document \cup {NoDoc}]
    <2>1. \A active \in BOOLEAN : New(r, active) \in Document
        BY DEF New, Document
    <2>2. QED
        BY <1>2, <1>7, <2>1 DEF Inv, TypeOK
<1>9. TypeOK'
    BY <1>1, <1>3, <1>5, <1>8 DEF Inv, TypeOK
<1>10. OnlySeeded' /\ FinishedBefore'
    BY <1>1, <1>4, <1>5 DEF Inv, OnlySeeded, FinishedBefore
<1>11. Routes' /\ Recorded'
    BY <1>1, <1>2, <1>3 DEF Inv, Routes, Recorded, Saved
<1>12. NoSaveLost'
    BY <1>1, <1>2, <1>3 DEF Inv, NoSaveLost
<1>13. Authors'
    BY <1>1, <1>3 DEF Inv, Authors, Saved
<1>14. Loaded'
    <2>1. ASSUME NEW q \in Requests, q # r
          PROVE  doc'[q] = doc[q] /\ pc'[q] = pc[q]
        BY <1>2, <1>3, <2>1 DEF Inv, TypeOK
    <2>2. CASE label = "save" /\ op[r] \notin Creates
        <3>1. /\ doc'[r] = Changed(r, template[target[r]]) /\ unseen[r] = 0
              /\ template[target[r]] # NoDoc
            BY <1>1, <1>2, <2>2 DEF Inv, TypeOK, Loaded, Creates
        <3>2. /\ doc'[r] \in Document /\ doc'[r] # NoDoc /\ doc'[r].version \in Nat
              /\ doc'[r].version = template[target[r]].version + Own(r)
              /\ op[r] = "update" => doc'[r].by = r
              /\ op[r] # "update" => doc'[r].by = template[target[r]].by
            BY <1>7, <2>2, <3>1, Names DEF Document, Creates, Seed
        <3>3. QED
            BY <1>1, <1>3, <2>1, <3>1, <3>2 DEF Inv, Loaded, Own
    <2>3. CASE ~(label = "save" /\ op[r] \notin Creates)
        BY <1>1, <1>2, <1>3, <2>1, <2>3 DEF Inv, Loaded, Own
    <2>4. QED
        BY <2>2, <2>3
<1>15. NumberedInOrder'
    <2>1. \A v \in versions : v.by # Seed => v.by \in Requests /\ v.by # r
        BY <1>1 DEF Inv, Recorded
    <2>2. QED
        BY <1>1, <1>6, <2>1 DEF Inv, NumberedInOrder
<1>16. Found'
    BY <1>1, <1>2, <1>3, <1>6 DEF Inv, Found
<1>17. QED
    BY <1>9, <1>10, <1>11, <1>12, <1>13, <1>14, <1>15, <1>16 DEF Inv

\* What a save does: it fails, or it is the one of a request that loaded the
\* template, with no save in between, or one if the request is an update.
LEMMA SaveDocument ==
    ASSUME Inv, NEW r \in Requests, Save(r), LockHolds(r)
    PROVE  /\ op[r] \notin Creates /\ Id(r) = target[r] /\ target[r] \in Templates
           /\ template[target[r]] # NoDoc /\ template[target[r]].version = doc[r].version
           /\ unseen[r] = Own(r)
           /\ doc[r] \in Document
           /\ op[r] = "update" => doc[r].by = r
           /\ op[r] # "update" => doc[r].by = template[target[r]].by
<1>1. op[r] \notin Creates
    BY IdOfRequest DEF LockHolds, Inv, OnlySeeded
<1>2. Id(r) = target[r] /\ target[r] \in Templates
    BY <1>1, IdOfRequest DEF Inv
<1>3. /\ template[target[r]] # NoDoc /\ template[target[r]].version = doc[r].version
      /\ pc[r] = "save"
    BY <1>2 DEF Save, LockHolds
<1>4. doc[r] \in Document /\ doc[r].version \in Nat /\ unseen[r] \in Nat
    BY <1>1, <1>3 DEF Inv, TypeOK, Loaded, Document
<1>5. unseen[r] = Own(r)
    BY <1>1, <1>3, <1>4 DEF Inv, Loaded, Own
<1>6. /\ op[r] = "update" => doc[r].by = r
      /\ op[r] # "update" => doc[r].by = template[target[r]].by
    BY <1>1, <1>3, <1>5 DEF Inv, Loaded, Own
<1>7. QED
    BY <1>1, <1>2, <1>3, <1>4, <1>5, <1>6

LEMMA SaveStep ==
    ASSUME Inv, NEW r \in Requests, Save(r), LockHolds(r)
    PROVE  Inv'
<1> DEFINE t == target[r]
           new == [doc[r] EXCEPT !.version = @ + 1]
<1>1. /\ UNCHANGED <<op, target, versions, doc, latest, before, excused>>
      /\ pc[r] = "save" /\ template' = [template EXCEPT ![t] = new]
      /\ \A q \in Requests : unseen'[q] =
            IF q # r /\ pc[q] = "save" /\ Id(q) = t THEN unseen[q] + 1 ELSE unseen[q]
      /\ unseen' \in [Requests -> Nat]
    BY SaveDocument DEF Save, inputVars, Inv, TypeOK
<1>2. /\ op[r] \notin Creates /\ t \in Templates /\ t \in Ids
      /\ op[r] \in Toggles \cup {"update"}
    BY SaveDocument, IdOfRequest, Names DEF Inv
<1>3. /\ new \in Document /\ new.version = doc[r].version + 1 /\ new.by = doc[r].by
      /\ new # NoDoc /\ doc[r].version \in Nat
    BY SaveDocument, Names DEF Document, Seed
<1>4. \A i \in Ids : template'[i] = IF i = t THEN new ELSE template[i]
    BY <1>1, <1>2 DEF Inv, TypeOK
<1> HIDE DEF new
<1>5. PICK label \in {"done", "findLatest"} :
        /\ \A q \in Requests : pc'[q] = IF q = r THEN label ELSE pc[q]
        /\ pc' \in [Requests -> PC]
        /\ label = "done" <=> op[r] # "update"
    BY <1>2 DEF Save, Goto, AfterSave, Toggles, Inv, TypeOK, PC
<1>6. \A q \in Requests : Older(q)' = Older(q)
    BY <1>1 DEF Older, VersionsOf, Id
<1>7. TypeOK'
    BY <1>1, <1>2, <1>3, <1>5 DEF Inv, TypeOK
<1>8. OnlySeeded'
    BY <1>2, <1>4, Names DEF Inv, OnlySeeded
<1>9. FinishedBefore'
    BY <1>1, <1>5 DEF Inv, FinishedBefore, Finished
<1>10. Routes' /\ Recorded'
    BY <1>1, <1>2, <1>5 DEF Inv, Routes, Recorded, Saved
<1>11. NoSaveLost'
    BY <1>1, <1>5, SaveDocument DEF Inv, NoSaveLost, Own
<1>12. Authors'
    <2> SUFFICES ASSUME NEW i \in Templates, NEW q \in Requests, template'[i].by = q
                 PROVE  op[q] = "update" /\ target[q] = i /\ pc'[q] \in Saved \cup {"done", "error"}
        BY <1>1 DEF Authors
    <2>1. CASE i = t /\ op[r] = "update"
        <3>1. q = r
            BY <1>3, <1>4, <2>1, SaveDocument, Names
        <3>2. QED
            BY <1>5, <2>1, <3>1 DEF Saved
    <2>2. CASE ~(i = t /\ op[r] = "update")
        <3>1. template[i].by = q
            BY <1>3, <1>4, <2>2, SaveDocument, Names
        <3>2. QED
            BY <1>5, <3>1 DEF Inv, Authors, Saved
    <2>3. QED
        BY <2>1, <2>2
<1>13. Loaded'
    <2> SUFFICES ASSUME NEW q \in Requests
                 PROVE  /\ pc'[q] = "start" => unseen'[q] = 0
                        /\ pc'[q] = "save" /\ op[q] \notin Creates =>
                             /\ template'[target[q]] # NoDoc /\ doc[q] # NoDoc
                             /\ template'[target[q]].version + Own(q) = doc[q].version + unseen'[q]
                             /\ op[q] = "update" => doc[q].by = q
                             /\ op[q] # "update" /\ unseen'[q] = 0 =>
                                  doc[q].by = template'[target[q]].by
        BY <1>1 DEF Loaded, Own
    <2>1. pc'[q] = "start" => unseen'[q] = 0
        BY <1>1, <1>5 DEF Inv, Loaded
    <2>2. CASE pc'[q] = "save" /\ op[q] \notin Creates
        <3>1. q # r /\ pc[q] = "save" /\ Id(q) = target[q] /\ target[q] \in Ids
            BY <1>5, <2>2, IdOfRequest, Names DEF Inv
        <3>2. /\ template[target[q]] # NoDoc /\ doc[q] # NoDoc
              /\ template[target[q]].version + Own(q) = doc[q].version + unseen[q]
              /\ op[q] = "update" => doc[q].by = q
              /\ op[q] # "update" /\ unseen[q] = 0 => doc[q].by = template[target[q]].by
            BY <2>2, <3>1 DEF Inv, Loaded
        <3>3. CASE target[q] # t
            BY <1>1, <1>4, <2>1, <3>1, <3>2, <3>3
        <3>4. CASE target[q] = t
            <4>1. unseen'[q] = unseen[q] + 1 /\ unseen[q] \in Nat /\ Own(q) \in Nat
                BY <1>1, <3>1, <3>4 DEF Inv, TypeOK, Own
            <4>2. template'[t] = new /\ template[t].version = doc[r].version
                BY <1>2, <1>4, SaveDocument
            <4>3. doc[q].version \in Nat
                <5>1. doc[q] \in Document
                    BY <3>2 DEF Inv, TypeOK
                <5>2. QED
                    BY <5>1 DEF Document
            <4>4. template'[t].version + Own(q) = doc[q].version + unseen'[q]
                BY <1>3, <3>2, <3>4, <4>1, <4>2, <4>3
            <4>5. QED
                BY <1>3, <2>1, <3>2, <3>4, <4>1, <4>2, <4>4
        <3>5. QED
            BY <3>3, <3>4
    <2>3. QED
        BY <2>1, <2>2
<1>14. NumberedInOrder'
    BY <1>1, <1>6 DEF Inv, NumberedInOrder, Recorded
<1>15. Found'
    BY <1>1, <1>5, <1>6 DEF Inv, Found
<1>16. QED
    BY <1>7, <1>8, <1>9, <1>10, <1>11, <1>12, <1>13, <1>14, <1>15 DEF Inv

LEMMA SaveVersionStep ==
    ASSUME Inv, NEW r \in Requests, SaveVersion(r)
    PROVE  Inv'
<1> DEFINE v == [by |-> r, templateId |-> target[r], versionNumber |-> latest[r] + 1]
<1>1. /\ pc[r] = "saveVersion" /\ op[r] = "update" /\ r \notin Finished
      /\ UNCHANGED <<op, target, template, doc, latest, unseen, before, excused>>
      /\ \A q \in Requests : pc'[q] = IF q = r THEN "done" ELSE pc[q]
      /\ pc' \in [Requests -> PC]
    BY DEF SaveVersion, Goto, inputVars, historyVars, Inv, TypeOK, PC, Routes, Saved, Finished
<1>2. versions' = versions \cup {v} /\ v.by = r /\ v.templateId = target[r]
    BY <1>1 DEF SaveVersion, Id, Creates
<1>3. Finished \subseteq Finished'
    BY <1>1 DEF Finished
<1>4. \A q \in Requests : Older(q)' = Older(q)
    <2> SUFFICES ASSUME NEW q \in Requests PROVE Older(q)' = Older(q)
        OBVIOUS
    <2>1. v.by \notin before[q] \cup {Seed}
        BY <1>1, <1>2, NotOlder
    <2>2. Id(q)' = Id(q) /\ before'[q] = before[q]
        BY <1>1 DEF Id
    <2> HIDE DEF v
    <2>3. QED
        BY <1>2, <2>1, <2>2 DEF Older, VersionsOf
<1>5. TypeOK'
    <2>1. v \in [by : Requests \cup {Seed}, templateId : Ids, versionNumber : Nat]
        BY Names DEF Inv, TypeOK
    <2>2. QED
        BY <1>1, <1>2, <2>1 DEF Inv, TypeOK
<1>6. OnlySeeded' /\ FinishedBefore'
    BY <1>1, <1>3 DEF Inv, OnlySeeded, FinishedBefore
<1>7. Routes'
    BY <1>1 DEF Inv, Routes, Saved, Creates
<1>8. Recorded'
    <2>1. \A u \in versions' : u.by # Seed =>
            /\ u.by \in Requests /\ pc'[u.by] = "done" /\ op[u.by] = "update"
            /\ u.templateId = target[u.by]
        BY <1>1, <1>2 DEF Inv, Recorded
    <2>2. ASSUME NEW q \in Requests, pc'[q] = "done", op[q] = "update"
          PROVE  \E u \in versions' : u.by = q /\ u.templateId = target[q]
        <3>1. CASE q = r
            BY <1>2, <3>1
        <3>2. CASE q # r
            BY <1>1, <1>2, <2>2, <3>2 DEF Inv, Recorded
        <3>3. QED
            BY <3>1, <3>2
    <2>3. QED
        BY <1>1, <2>1, <2>2 DEF Recorded
<1>9. NoSaveLost'
    BY <1>1 DEF Inv, NoSaveLost, Toggles
<1>10. Loaded' /\ Authors'
    BY <1>1 DEF Inv, Loaded, Own, Authors, Saved
<1>11. Found'
    BY <1>1, <1>4 DEF Inv, Found
<1>12. \A w, x \in Older(r) : w = x /\ w.versionNumber <= latest[r]
    BY <1>1 DEF Inv, Found
<1>13. NumberedInOrder'
    <2>1. \A w \in Older(r) : w.versionNumber < v.versionNumber
        <3>1. \A w \in Older(r) : w.versionNumber \in Nat /\ latest[r] \in Nat
            BY DEF Older, VersionsOf, Inv, TypeOK
        <3>2. QED
            BY <1>12, <3>1
    <2>2. ASSUME NEW u \in versions', u.by # Seed
          PROVE  \A w \in Older(u.by)' : w.versionNumber < u.versionNumber
        <3>1. CASE u = v
            BY <1>2, <1>4, <2>1, <3>1
        <3>2. CASE u \in versions
            BY <1>4, <2>2, <3>2 DEF Inv, Recorded, NumberedInOrder
        <3>3. QED
            BY <1>2, <3>1, <3>2
    <2>3. QED
        BY <2>2 DEF NumberedInOrder
<1>14. QED
    BY <1>5, <1>6, <1>7, <1>8, <1>9, <1>10, <1>11, <1>13 DEF Inv

LEMMA FindLatestStep ==
    ASSUME Inv, NEW r \in Requests, FindLatest(r)
    PROVE  Inv'
<1>1. /\ pc[r] = "findLatest" /\ excused' \subseteq Requests
      /\ UNCHANGED <<inputVars, template, versions, doc, unseen, before>>
    BY DEF FindLatest, historyVars, Inv, TypeOK
<1>2. CASE TooMany(Id(r))
    <2>1. Goto(r, "error") /\ latest' = latest /\ latest \in [Requests -> Nat]
        BY <1>2 DEF FindLatest, Inv, TypeOK
    <2>2. QED
        BY <1>1, <2>1, PcStep DEF Saved
<1>3. CASE ~TooMany(Id(r))
    <2> DEFINE found == IF VersionsOf(Id(r)) = {} THEN 0
                        ELSE (CHOOSE v \in VersionsOf(Id(r)) : TRUE).versionNumber
    <2>1. Goto(r, "deactivatePrevious") /\ latest' = [latest EXCEPT ![r] = found]
        BY <1>3 DEF FindLatest
    <2>2. found \in Nat
        BY DEF VersionsOf, Inv, TypeOK
    <2>3. \A v, w \in VersionsOf(Id(r)) : v = w /\ v.versionNumber <= found
        <3>1. \A v, w \in VersionsOf(Id(r)) : v = w
            BY <1>3 DEF TooMany
        <3>2. \A v \in VersionsOf(Id(r)) : v.versionNumber = found /\ v.versionNumber \in Nat
            BY <3>1 DEF VersionsOf, Inv, TypeOK
        <3>3. QED
            BY <3>1, <3>2
    <2> HIDE DEF found
    <2>4. /\ latest' \in [Requests -> Nat] /\ latest'[r] = found
          /\ \A q \in Requests : q # r => latest'[q] = latest[q]
        BY <2>1, <2>2 DEF Inv, TypeOK
    <2>5. \A v, w \in Older(r) : v = w /\ v.versionNumber <= latest'[r]
        BY <2>3, <2>4 DEF Older
    <2>6. QED
        BY <1>1, <2>1, <2>4, <2>5, PcStep DEF Saved
<1>4. QED
    BY <1>2, <1>3

LEMMA StepInv == Inv /\ [Next]_vars => Inv'
<1> SUFFICES ASSUME Inv, [Next]_vars PROVE Inv'
    OBVIOUS
<1>1. ASSUME NEW r \in Requests, CreateOrImport(r) \/ Load(r) PROVE Inv'
    BY <1>1, BeginStep
<1>2. ASSUME NEW r \in Requests, Save(r) PROVE Inv'
    <2>1. CASE LockHolds(r)
        BY <1>2, <2>1, SaveStep
    <2>2. CASE ~LockHolds(r)
        <3>1. /\ pc[r] = "save" /\ Goto(r, "error") /\ latest' = latest
              /\ latest \in [Requests -> Nat] /\ excused' \subseteq Requests
              /\ UNCHANGED <<inputVars, template, versions, doc, unseen, before>>
            BY <1>2, <2>2 DEF Save, Inv, TypeOK
        <3>2. QED
            BY <3>1, PcStep DEF Saved
    <2>3. QED
        BY <2>1, <2>2
<1>3. ASSUME NEW r \in Requests, FindLatest(r) PROVE Inv'
    BY <1>3, FindLatestStep
<1>4. ASSUME NEW r \in Requests, DeactivatePrevious(r) PROVE Inv'
    <2>1. PICK label \in {"error", "saveVersion"} :
            /\ pc[r] = "deactivatePrevious" /\ Goto(r, label) /\ latest' = latest
            /\ latest \in [Requests -> Nat] /\ excused' \subseteq Requests
            /\ UNCHANGED <<inputVars, template, versions, doc, unseen, before>>
        BY <1>4 DEF DeactivatePrevious, historyVars, Inv, TypeOK
    <2>2. \A v, w \in Older(r) : v = w /\ v.versionNumber <= latest'[r]
        BY <2>1 DEF Inv, Found
    <2>3. QED
        BY <2>1, <2>2, PcStep DEF Saved
<1>5. ASSUME NEW r \in Requests, SaveVersion(r) PROVE Inv'
    BY <1>5, SaveVersionStep
<1>6. ASSUME NEW r \in Requests, RequestFails(r) PROVE Inv'
    <2>1. /\ pc[r] \in Saved \cup {"save"} /\ Goto(r, "error") /\ latest' = latest
          /\ latest \in [Requests -> Nat] /\ excused' \subseteq Requests
          /\ UNCHANGED <<inputVars, template, versions, doc, unseen, before>>
        BY <1>6, IdOfRequest DEF RequestFails, Refuse, Finished, Saved, PC, Inv, TypeOK
    <2>2. QED
        BY <2>1, PcStep
<1>7. CASE UNCHANGED vars
    BY <1>7 DEF vars, inputVars, historyVars, Inv, TypeOK, OnlySeeded, NoSaveLost, NumberedInOrder,
        Routes, Loaded, Own, Authors, Recorded, Found, FinishedBefore, Older,
        VersionsOf, Id, Finished
<1>8. QED
    BY <1>1, <1>2, <1>3, <1>4, <1>5, <1>6, <1>7 DEF Next

LEMMA Invariance == Spec => []Inv
<1>1. Init => Inv
    BY InitInv
<1>2. Inv /\ [Next]_vars => Inv'
    BY StepInv
<1>3. QED
    BY <1>1, <1>2, PTL DEF Spec

-----------------------------------------------------------------------------
(* The theorems *)

\* The documents and the requests have their types.
THEOREM TypeCorrect == Spec => []TypeOK
<1>1. Inv => TypeOK
    BY DEF Inv
<1>2. QED
    BY <1>1, Invariance, PTL

\* An activation, deactivation or deletion that succeeds undid no save it never saw.
THEOREM NothingOverwritten == Spec => []NoSaveLost
<1>1. Inv => NoSaveLost
    BY DEF Inv
<1>2. QED
    BY <1>1, Invariance, PTL

\* The content of a template is recorded, unless its update failed or goes on.
THEOREM ContentRecorded == Spec => []ContentHasVersion
<1>1. Inv => ContentHasVersion
    <2> SUFFICES ASSUME Inv, NEW t \in Templates, NEW r \in Requests,
                        template[t].by = r, pc[r] = "done"
                 PROVE  \E v \in VersionsOf(t) : v.by = r
        BY DEF ContentHasVersion
    <2>1. op[r] = "update" /\ target[r] = t
        BY DEF Inv, Authors
    <2>2. PICK v \in versions : v.by = r /\ v.templateId = t
        BY <2>1 DEF Inv, Recorded
    <2>3. QED
        BY <2>2 DEF VersionsOf
<1>2. QED
    BY <1>1, Invariance, PTL

\* Version numbers grow, but among updates that overlap.
THEOREM NumbersGrow == Spec => []NumberedInOrder
<1>1. Inv => NumberedInOrder
    BY DEF Inv
<1>2. QED
    BY <1>1, Invariance, PTL

\* Only the save of an update changes who wrote the content of a template.
THEOREM ContentStays == Spec => NoContentReturns
<1>1. Inv /\ [Next]_vars =>
        \A t \in Templates : template'[t].by # template[t].by =>
          \E r \in Requests : /\ template'[t].by = r
                              /\ op[r] = "update" /\ pc[r] = "save"
    <2> SUFFICES ASSUME Inv, [Next]_vars, NEW t \in Templates, template'[t].by # template[t].by
                 PROVE  \E r \in Requests : /\ template'[t].by = r
                                            /\ op[r] = "update" /\ pc[r] = "save"
        OBVIOUS
    <2>1. PICK r \in Requests : Save(r) /\ LockHolds(r)
        BY DEF Next, CreateOrImport, Load, Save, FindLatest, DeactivatePrevious, SaveVersion,
            RequestFails, vars
    <2>2. template' = [template EXCEPT ![target[r]] = [doc[r] EXCEPT !.version = @ + 1]]
          /\ pc[r] = "save"
        BY <2>1, SaveDocument DEF Save
    <2>3. t = target[r] /\ template'[t].by = doc[r].by
        BY <2>1, <2>2, SaveDocument, Names DEF Inv, TypeOK, Document
    <2>4. QED
        BY <2>1, <2>2, <2>3, SaveDocument
<1>2. QED
    BY <1>1, Invariance, PTL DEF Spec, NoContentReturns
=============================================================================
