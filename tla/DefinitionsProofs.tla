------------------------- MODULE DefinitionsProofs -------------------------
(***************************************************************************)
(* Theorems of WorkflowDefinitions, for any definitions, requests, step    *)
(* contents and bounds: publishing freezes a version, and an instance runs *)
(* the validated steps of one version.  Both rest on the row lock, stated  *)
(* as Exclusive: what a transaction has checked of its version stays true  *)
(* until it commits.                                                       *)
(***************************************************************************)
EXTENDS WorkflowDefinitions, SequenceTheorems, TLAPS

InTransaction(c) == c.op \notin {"idle", "start"}

Exclusive ==
    \A q, r \in Request :
        /\ InTransaction(calls[q]) /\ InTransaction(calls[r])
        /\ calls[q].definition = calls[r].definition
        /\ calls[q].version = calls[r].version
        => q = r

\* What call c relies on in the tables vs.
Holds(c, vs) ==
    /\ c.op \in {"add", "update"} => c.to \in StepNo /\ c.content \in Content
    /\ c.op = "draft" => c.definition \in Definition /\ c.version = 0
    /\ c.op \in {"add", "update", "delete", "publish"} =>
          vs[c.definition][c.version].status = "DRAFT"
    /\ c.op = "publish" => ValidVersion(vs[c.definition][c.version].steps)
    /\ c.op = "retire" => vs[c.definition][c.version].status = "PUBLISHED"
    /\ c.op = "start" => vs[c.definition][c.version].status # "DRAFT"

FrozenIsValid ==
    \A d \in Definition : \A v \in DOMAIN versions[d] :
        versions[d][v].status # "DRAFT" => ValidVersion(versions[d][v].steps)

IInv ==
    /\ TypeOK
    /\ Exclusive
    /\ \A r \in Request : Holds(calls[r], versions)
    /\ FrozenIsValid
    /\ InstancesRunOneVersion

\* What a step may do to the versions, whoever takes it.
FrozenStays ==
    \A d \in Definition : \A v \in DOMAIN versions[d] :
        versions[d][v].status # "DRAFT" =>
            /\ v \in DOMAIN versions'[d]
            /\ versions'[d][v].steps = versions[d][v].steps
            /\ \/ versions'[d][v].status = versions[d][v].status
               \/ versions[d][v].status = "PUBLISHED" /\ versions'[d][v].status = "RETIRED"

USE DefinitionsBoundAssumption, DefinitionsContentAssumption

-----------------------------------------------------------------------------
LEMMA IdleIsCall == Idle \in Call
BY DEF Idle, Call

LEMMA IdleHolds == \A vs : Holds(Idle, vs) /\ ~InTransaction(Idle) /\ Idle.op = "idle"
BY DEF Idle, Holds, InTransaction

\* The version at d, v of a table, and its types.
LEMMA VersionTypes ==
    ASSUME TypeOK, NEW d \in Definition, NEW v \in DOMAIN versions[d]
    PROVE  /\ versions[d] \in Seq(VersionRow) /\ v \in 1 .. Len(versions[d])
           /\ versions[d][v] \in VersionRow /\ v \in Nat \ {0}
<1>1. versions[d] \in Seq(VersionRow)
  BY DEF TypeOK
<1> QED
  BY <1>1, LenProperties, ElementOfSeq

LEMMA InstanceTypes ==
    ASSUME TypeOK, NEW i \in DOMAIN instances
    PROVE  /\ instances[i] \in InstanceRow /\ instances[i].definition \in Definition
           /\ instances[i].version \in DOMAIN versions[instances[i].definition]
<1>1. instances \in Seq(InstanceRow)
  BY DEF TypeOK
<1>2. instances[i] \in InstanceRow
  BY <1>1, LenProperties, ElementOfSeq
<1> QED
  BY <1>2 DEF TypeOK, InstanceRow

\* Replacing one version's row by another.
LEMMA RowReplaced ==
    ASSUME TypeOK, NEW d \in Definition, NEW v \in DOMAIN versions[d], NEW row \in VersionRow,
           versions' = [versions EXCEPT ![d] = [versions[d] EXCEPT ![v] = row]]
    PROVE  /\ versions' \in [Definition -> Seq(VersionRow)]
           /\ \A e \in Definition : DOMAIN versions'[e] = DOMAIN versions[e]
           /\ \A e \in Definition : \A w \in DOMAIN versions[e] :
                 versions'[e][w] = IF e = d /\ w = v THEN row ELSE versions[e][w]
<1>1. versions \in [Definition -> Seq(VersionRow)]
  BY DEF TypeOK
<1>2. versions[d] \in Seq(VersionRow) /\ v \in 1 .. Len(versions[d])
  BY VersionTypes
<1> DEFINE s == [versions[d] EXCEPT ![v] = row]
<1>3. /\ s \in Seq(VersionRow) /\ Len(s) = Len(versions[d])
      /\ \A w \in 1 .. Len(versions[d]) : s[w] = IF w = v THEN row ELSE versions[d][w]
  BY <1>2, ExceptSeq
<1>4. DOMAIN s = DOMAIN versions[d] /\ DOMAIN versions[d] = 1 .. Len(versions[d])
  BY <1>2, <1>3, LenProperties
<1> HIDE DEF s
<1>5. versions' = [versions EXCEPT ![d] = s]
  BY DEF s
<1> QED
  BY <1>1, <1>3, <1>4, <1>5

\* Adding a draft.
LEMMA RowAdded ==
    ASSUME TypeOK, NEW d \in Definition,
           versions' = [versions EXCEPT ![d] = Append(versions[d], NewVersion)]
    PROVE  /\ versions' \in [Definition -> Seq(VersionRow)]
           /\ \A e \in Definition : DOMAIN versions[e] \subseteq DOMAIN versions'[e]
           /\ \A e \in Definition : \A w \in DOMAIN versions[e] : versions'[e][w] = versions[e][w]
           /\ \A e \in Definition : \A w \in DOMAIN versions'[e] \ DOMAIN versions[e] :
                 versions'[e][w].status = "DRAFT"
<1>1. versions \in [Definition -> Seq(VersionRow)]
  BY DEF TypeOK
<1>2. NewVersion \in VersionRow /\ NewVersion.status = "DRAFT"
  BY DEF NewVersion, VersionRow
<1> DEFINE s == Append(versions[d], NewVersion)
           k == Len(versions[d]) + 1
<1>3. Len(versions[d]) \in Nat /\ DOMAIN versions[d] = 1 .. Len(versions[d])
  BY <1>1, LenProperties
<1>4. /\ s \in Seq(VersionRow) /\ DOMAIN s = 1 .. k
      /\ \A w \in 1 .. Len(versions[d]) : s[w] = versions[d][w]
      /\ s[k] = NewVersion
  BY <1>1, <1>2, <1>3
<1> HIDE DEF s
<1>5. versions' = [versions EXCEPT ![d] = s]
  BY DEF s
<1> QED
  BY <1>1, <1>2, <1>3, <1>4, <1>5

-----------------------------------------------------------------------------
\* A step that only takes note of a request, which has the row it works on.
LEMMA OpenKeeps ==
    ASSUME IInv, NEW r \in Request, NEW c \in Call, Open(r, c), c.op # "idle",
           InTransaction(c) => ~Locked(c.definition, c.version),
           c.op # "draft" =>
               c.definition \in Definition /\ c.version \in DOMAIN versions[c.definition],
           Holds(c, versions)
    PROVE  IInv' /\ FrozenStays
<1>1. UNCHANGED <<versions, instances>>
  BY DEF Open
<1>2. calls' \in [Request -> Call] /\ \A q \in Request : calls'[q] = IF q = r THEN c ELSE calls[q]
  BY DEF Open, IInv, TypeOK
<1>3. TypeOK'
  BY <1>1, <1>2 DEF IInv, TypeOK
<1>4. Exclusive'
  <2>1. ASSUME NEW q \in Request, q # r, InTransaction(calls[q]), InTransaction(c),
               calls[q].definition = c.definition, calls[q].version = c.version
        PROVE  FALSE
    BY <2>1 DEF Locked, InTransaction
  <2> QED
    BY <1>2, <2>1 DEF IInv, Exclusive
<1>5. \A q \in Request : Holds(calls'[q], versions')
  BY <1>1, <1>2 DEF IInv
<1> QED
  BY <1>1, <1>3, <1>4, <1>5 DEF IInv, FrozenIsValid, InstancesRunOneVersion, FrozenStays

\* A commit: one version's row is replaced by the transaction that has it locked,
\* and what is not a draft keeps its steps and does not go back to being one.
LEMMA CommitKeeps ==
    ASSUME IInv, NEW r \in Request, InTransaction(calls[r]), calls[r].op # "draft",
           NEW row \in VersionRow,
           versions' = [versions EXCEPT ![calls[r].definition] =
                            [versions[calls[r].definition] EXCEPT ![calls[r].version] = row]],
           calls' = [calls EXCEPT ![r] = Idle], UNCHANGED instances,
           row.status # "DRAFT" => ValidVersion(row.steps),
           LET old == versions[calls[r].definition][calls[r].version] IN
               old.status # "DRAFT" =>
                   /\ row.steps = old.steps
                   /\ old.status = "PUBLISHED" /\ row.status = "RETIRED"
    PROVE  IInv' /\ FrozenStays
<1> DEFINE d == calls[r].definition
           v == calls[r].version
           old == versions[d][v]
<1>1. d \in Definition /\ v \in DOMAIN versions[d] /\ TypeOK
  BY DEF IInv, TypeOK, InTransaction
<1>2. /\ versions' \in [Definition -> Seq(VersionRow)]
      /\ \A e \in Definition : DOMAIN versions'[e] = DOMAIN versions[e]
      /\ \A e \in Definition : \A w \in DOMAIN versions[e] :
            versions'[e][w] = IF e = d /\ w = v THEN row ELSE versions[e][w]
  BY <1>1, RowReplaced
<1>3. calls' \in [Request -> Call] /\ \A q \in Request : calls'[q] = IF q = r THEN Idle ELSE calls[q]
  BY <1>1, IdleIsCall DEF TypeOK
<1>4. TypeOK'
  <2>1. \A i \in DOMAIN instances :
            instances'[i].version \in DOMAIN versions'[instances'[i].definition]
    <3>1. ASSUME NEW i \in DOMAIN instances PROVE instances[i].definition \in Definition
      BY <1>1, InstanceTypes
    <3> QED
      BY <1>1, <1>2, <3>1 DEF TypeOK
  <2> QED
    BY <1>1, <1>2, <1>3, <2>1, IdleHolds DEF TypeOK
<1>5. Exclusive'
  BY <1>3, IdleHolds DEF IInv, Exclusive
<1>6. \A q \in Request : Holds(calls'[q], versions')
  <2>1. ASSUME NEW q \in Request, q # r PROVE Holds(calls[q], versions')
    <3> DEFINE c == calls[q]
    <3>1. Holds(c, versions)
      BY DEF IInv
    <3>2. CASE InTransaction(c) /\ c.op # "draft"
      <4>1. c.definition \in Definition /\ c.version \in DOMAIN versions[c.definition]
        BY <1>1, <3>2 DEF TypeOK, InTransaction
      <4>2. ~(c.definition = d /\ c.version = v)
        BY <2>1, <3>2 DEF IInv, Exclusive
      <4>3. versions'[c.definition][c.version] = versions[c.definition][c.version]
        BY <1>2, <4>1, <4>2
      <4> QED
        BY <3>1, <4>3 DEF Holds
    <3>3. CASE c.op = "start"
      <4>1. c.definition \in Definition /\ c.version \in DOMAIN versions[c.definition]
        BY <1>1, <3>3 DEF TypeOK
      <4>2. versions[c.definition][c.version].status # "DRAFT"
        BY <3>1, <3>3 DEF Holds
      <4>3. versions'[c.definition][c.version].status # "DRAFT"
        BY <1>2, <4>1, <4>2
      <4> QED
        BY <3>3, <4>3 DEF Holds
    <3>4. CASE c.op \in {"idle", "draft"}
      BY <3>1, <3>4 DEF Holds
    <3> QED
      BY <3>2, <3>3, <3>4 DEF InTransaction
  <2> QED
    BY <1>3, <2>1, IdleHolds
<1>7. FrozenIsValid'
  BY SMTT(30), <1>2 DEF IInv, FrozenIsValid
<1>8. InstancesRunOneVersion'
  <2>1. SUFFICES ASSUME NEW i \in DOMAIN instances'
                 PROVE  LET new == versions'[instances'[i].definition][instances'[i].version] IN
                        /\ new.status # "DRAFT"
                        /\ ValidVersion(new.steps)
                        /\ \A k \in DOMAIN instances'[i].ran :
                              k \in StepNo /\ instances'[i].ran[k] = new.steps[k]
    BY DEF InstancesRunOneVersion
  <2>a. instances' = instances /\ i \in DOMAIN instances
    OBVIOUS
  <2>2. instances[i].definition \in Definition
    BY <1>1, <2>a, InstanceTypes
  <2>3. instances[i].version \in DOMAIN versions[instances[i].definition]
    BY <1>1, <2>a DEF TypeOK
  <2>4. LET was == versions[instances[i].definition][instances[i].version] IN
        /\ was.status # "DRAFT"
        /\ ValidVersion(was.steps)
        /\ \A k \in DOMAIN instances[i].ran : k \in StepNo /\ instances[i].ran[k] = was.steps[k]
    BY <2>a DEF IInv, InstancesRunOneVersion
  <2>5. CASE instances[i].definition = d /\ instances[i].version = v
    <3>1. versions'[instances[i].definition][instances[i].version] = row
      BY <1>2, <2>2, <2>3, <2>5
    <3>2. row.status # "DRAFT" /\ row.steps = old.steps
      BY <2>4, <2>5
    <3>3. ValidVersion(row.steps) /\ \A k \in DOMAIN instances[i].ran :
             k \in StepNo /\ instances[i].ran[k] = row.steps[k]
      BY <2>4, <2>5, <3>2
    <3>4. versions'[instances'[i].definition][instances'[i].version] = row
      BY <2>a, <3>1
    <3> QED
      BY <2>a, <3>2, <3>3, <3>4
  <2>6. CASE ~(instances[i].definition = d /\ instances[i].version = v)
    <3>1. versions'[instances[i].definition][instances[i].version]
             = versions[instances[i].definition][instances[i].version]
      BY <1>2, <2>2, <2>3, <2>6
    <3> QED
      BY <2>a, <2>4, <3>1
  <2> QED
    BY <2>5, <2>6
<1>9. FrozenStays
  BY <1>2 DEF FrozenStays
<1> QED
  BY <1>4, <1>5, <1>6, <1>7, <1>8, <1>9 DEF IInv

\* Instances whose versions' rows are as they were.
LEMMA InstancesStay ==
    ASSUME InstancesRunOneVersion, UNCHANGED instances,
           \A i \in DOMAIN instances :
               versions'[instances[i].definition][instances[i].version]
                  = versions[instances[i].definition][instances[i].version]
    PROVE  InstancesRunOneVersion'
BY DEF InstancesRunOneVersion

\* A new draft, which no transaction and no instance has to do with.
LEMMA DraftKeeps ==
    ASSUME IInv, NEW d \in Definition,
           versions' = [versions EXCEPT ![d] = Append(versions[d], NewVersion)],
           UNCHANGED instances,
           calls' = calls \/ \E r \in Request : calls' = [calls EXCEPT ![r] = Idle]
    PROVE  IInv' /\ FrozenStays
<1>1. TypeOK
  BY DEF IInv
<1>2. /\ versions' \in [Definition -> Seq(VersionRow)]
      /\ \A e \in Definition : DOMAIN versions[e] \subseteq DOMAIN versions'[e]
      /\ \A e \in Definition : \A w \in DOMAIN versions[e] : versions'[e][w] = versions[e][w]
      /\ \A e \in Definition : \A w \in DOMAIN versions'[e] \ DOMAIN versions[e] :
            versions'[e][w].status = "DRAFT"
  BY <1>1, RowAdded
<1>3. calls' \in [Request -> Call] /\ \A q \in Request : calls'[q] \in {calls[q], Idle}
  BY <1>1, IdleIsCall DEF TypeOK
<1>4. TypeOK'
  <2>1. ASSUME NEW i \in DOMAIN instances
        PROVE  instances[i].version \in DOMAIN versions'[instances[i].definition]
    BY <1>1, <1>2, InstanceTypes
  <2>2. ASSUME NEW q \in Request, calls'[q].op \notin {"idle", "draft"}
        PROVE  /\ calls'[q].definition \in Definition
               /\ calls'[q].version \in DOMAIN versions'[calls'[q].definition]
    BY <1>1, <1>2, <1>3, <2>2, IdleHolds DEF TypeOK
  <2> QED
    BY <1>1, <1>2, <1>3, <2>1, <2>2 DEF TypeOK
<1>5. Exclusive'
  BY <1>3, IdleHolds DEF IInv, Exclusive
<1>6. \A q \in Request : Holds(calls'[q], versions')
  <2>1. ASSUME NEW q \in Request PROVE Holds(calls[q], versions')
    <3>1. Holds(calls[q], versions)
      BY DEF IInv
    <3>2. CASE calls[q].op \in {"idle", "draft"}
      BY <3>1, <3>2 DEF Holds
    <3>3. CASE calls[q].op \notin {"idle", "draft"}
      <4>1. versions'[calls[q].definition][calls[q].version]
               = versions[calls[q].definition][calls[q].version]
        BY <1>1, <1>2, <3>3 DEF TypeOK
      <4> QED
        BY <3>1, <3>3, <4>1 DEF Holds
    <3> QED
      BY <3>2, <3>3
  <2> QED
    BY <1>3, <2>1, IdleHolds
<1>7. FrozenIsValid'
  BY <1>2 DEF IInv, FrozenIsValid
<1>8. InstancesRunOneVersion'
  <2>1. ASSUME NEW i \in DOMAIN instances
        PROVE  versions'[instances[i].definition][instances[i].version]
                  = versions[instances[i].definition][instances[i].version]
    BY <1>1, <1>2, InstanceTypes
  <2> QED
    BY <2>1, InstancesStay DEF IInv
<1>9. FrozenStays
  BY <1>2 DEF FrozenStays
<1> QED
  BY <1>4, <1>5, <1>6, <1>7, <1>8, <1>9 DEF IInv

\* A step that only forgets a request.
LEMMA ForgetKeeps ==
    ASSUME TypeOK, Exclusive, \A r \in Request : Holds(calls[r], versions),
           NEW r \in Request, calls' = [calls EXCEPT ![r] = Idle], UNCHANGED versions
    PROVE  /\ calls' \in [Request -> Call] /\ Exclusive'
           /\ \A q \in Request : Holds(calls'[q], versions')
           /\ \A q \in Request :
                 calls'[q].op \notin {"idle", "draft"} =>
                     /\ calls'[q].definition \in Definition
                     /\ calls'[q].version \in DOMAIN versions'[calls'[q].definition]
<1>1. calls' \in [Request -> Call] /\ \A q \in Request : calls'[q] \in {calls[q], Idle}
  BY IdleIsCall DEF TypeOK
<1>2. Exclusive'
  BY <1>1, IdleHolds DEF Exclusive
<1>3. \A q \in Request : Holds(calls'[q], versions')
  BY <1>1, IdleHolds
<1> QED
  BY <1>1, <1>2, <1>3, IdleHolds DEF TypeOK

LEMMA AbandonKeeps ==
    ASSUME IInv, NEW r \in Request, Abandon(r)
    PROVE  IInv' /\ FrozenStays
<1>1. calls' = [calls EXCEPT ![r] = Idle] /\ UNCHANGED <<versions, instances>>
  BY DEF Abandon
<1>2. TypeOK' /\ Exclusive' /\ \A q \in Request : Holds(calls'[q], versions')
  BY <1>1, ForgetKeeps DEF IInv, TypeOK
<1> QED
  BY <1>1, <1>2 DEF IInv, FrozenIsValid, InstancesRunOneVersion, FrozenStays

\* The first step a valid version has is one an instance can run.
LEMMA CommitStartKeeps ==
    ASSUME IInv, NEW r \in Request, CommitStart(r)
    PROVE  IInv' /\ FrozenStays
<1> DEFINE c == calls[r]
           row == versions[c.definition][c.version]
           new == [definition |-> c.definition, version |-> c.version, ran |-> <<row.steps[1]>>]
           k == Len(instances) + 1
<1>1. /\ c \in Call /\ c.op = "start" /\ c.definition \in Definition
      /\ c.version \in DOMAIN versions[c.definition] /\ c.version \in Nat
      /\ instances' = Append(instances, new)
      /\ calls' = [calls EXCEPT ![r] = Idle] /\ UNCHANGED versions
  BY DEF CommitStart, IInv, TypeOK, Call
<1>2. row.status # "DRAFT" /\ row \in VersionRow /\ ValidVersion(row.steps)
  BY <1>1, VersionTypes DEF IInv, Holds, FrozenIsValid
<1>3. 1 \in StepNo /\ row.steps[1] \in Content
  <2>1. PICK n \in StepNo : \A t \in StepNo : row.steps[t] # None <=> t <= n
    BY <1>2 DEF ValidVersion
  <2>2. 1 \in StepNo /\ 1 <= n
    BY DefinitionsBoundAssumption DEF StepNo
  <2>3. row.steps[1] # None
    BY <2>1, <2>2
  <2>4. row.steps \in [StepNo -> Content \cup {None}]
    BY <1>2 DEF VersionRow
  <2> QED
    BY <2>2, <2>3, <2>4
<1>4. /\ new \in InstanceRow /\ new.definition = c.definition /\ new.version = c.version
      /\ new.ran = <<row.steps[1]>>
  <2>1. <<row.steps[1]>> \in Seq(Content)
    BY <1>3
  <2> QED
    BY <1>1, <2>1 DEF InstanceRow
<1> HIDE DEF new
<1>5. Len(instances) \in Nat /\ DOMAIN instances = 1 .. Len(instances) /\ instances \in Seq(InstanceRow)
  BY LenProperties DEF IInv, TypeOK
<1>6. /\ instances' \in Seq(InstanceRow) /\ DOMAIN instances' = 1 .. k
      /\ \A i \in DOMAIN instances : instances'[i] = instances[i]
      /\ instances'[k] = new
  BY <1>1, <1>4, <1>5
<1>7. /\ calls' \in [Request -> Call] /\ Exclusive'
      /\ \A q \in Request : Holds(calls'[q], versions')
      /\ \A q \in Request :
            calls'[q].op \notin {"idle", "draft"} =>
                /\ calls'[q].definition \in Definition
                /\ calls'[q].version \in DOMAIN versions'[calls'[q].definition]
  BY <1>1, ForgetKeeps DEF IInv
<1>8. TypeOK'
  <2>1. \A i \in DOMAIN instances' :
            instances'[i].version \in DOMAIN versions[instances'[i].definition]
    BY <1>1, <1>4, <1>5, <1>6 DEF IInv, TypeOK
  <2> QED
    BY <1>1, <1>6, <1>7, <2>1 DEF IInv, TypeOK
<1>9. InstancesRunOneVersion'
  <2>1. ASSUME NEW i \in DOMAIN instances'
        PROVE  LET was == versions[instances'[i].definition][instances'[i].version] IN
               /\ was.status # "DRAFT"
               /\ ValidVersion(was.steps)
               /\ \A j \in DOMAIN instances'[i].ran :
                     j \in StepNo /\ instances'[i].ran[j] = was.steps[j]
    <3>1. CASE i = k
      <4>1. instances'[i] = new
        BY <1>6, <3>1
      <4>2. \A j \in DOMAIN new.ran : j = 1 /\ new.ran[j] = row.steps[1]
        BY <1>4
      <4> QED
        BY <1>2, <1>3, <1>4, <4>1, <4>2
    <3>2. CASE i # k
      <4>1. i \in DOMAIN instances /\ instances'[i] = instances[i]
        BY <1>5, <1>6, <3>2
      <4> QED
        BY <4>1 DEF IInv, InstancesRunOneVersion
    <3> QED
      BY <3>1, <3>2
  <2> QED
    BY <1>1, <2>1 DEF InstancesRunOneVersion
<1> QED
  BY <1>1, <1>7, <1>8, <1>9 DEF IInv, FrozenIsValid, FrozenStays

LEMMA AdvanceKeeps ==
    ASSUME IInv, NEW i \in DOMAIN instances, Advance(i)
    PROVE  IInv' /\ FrozenStays
<1> DEFINE row == versions[instances[i].definition][instances[i].version]
           ran == instances[i].ran
           next == Len(ran) + 1
           longer == Append(ran, row.steps[next])
           new == [instances[i] EXCEPT !.ran = longer]
<1>1. /\ next \in StepNo /\ row.steps[next] # None /\ UNCHANGED <<versions, calls>>
      /\ instances' = [instances EXCEPT ![i] = new]
  BY DEF Advance
<1>2. /\ instances[i] \in InstanceRow /\ instances[i].definition \in Definition
      /\ instances[i].version \in DOMAIN versions[instances[i].definition] /\ TypeOK
      /\ i \in 1 .. Len(instances) /\ instances \in Seq(InstanceRow)
  BY InstanceTypes, LenProperties DEF IInv, TypeOK
<1>3. row \in VersionRow
  BY <1>2, VersionTypes
<1>4. row.steps[next] \in Content /\ ran \in Seq(Content) /\ Len(ran) \in Nat
  <2>1. row.steps[next] \in Content
    BY <1>1, <1>3 DEF VersionRow
  <2>2. ran \in Seq(Content)
    BY <1>2 DEF InstanceRow
  <2> QED
    BY <2>1, <2>2, LenProperties
<1>5. /\ longer \in Seq(Content) /\ DOMAIN longer = 1 .. next /\ DOMAIN ran = 1 .. Len(ran)
      /\ longer[next] = row.steps[next]
      /\ \A k \in DOMAIN ran : longer[k] = ran[k]
  BY <1>4
<1> HIDE DEF longer
<1>6. /\ new \in InstanceRow /\ new.definition = instances[i].definition
      /\ new.version = instances[i].version /\ new.ran = longer
  BY <1>2, <1>5 DEF InstanceRow
<1> HIDE DEF new
<1>7. /\ instances' \in Seq(InstanceRow) /\ Len(instances') = Len(instances)
      /\ \A j \in 1 .. Len(instances) : instances'[j] = IF j = i THEN new ELSE instances[j]
  BY <1>1, <1>2, <1>6, ExceptSeq
<1>8. DOMAIN instances = 1 .. Len(instances) /\ DOMAIN instances' = DOMAIN instances
  BY <1>2, <1>7, LenProperties
<1>9. TypeOK'
  BY <1>1, <1>2, <1>6, <1>7, <1>8 DEF TypeOK
<1>10. InstancesRunOneVersion'
  <2>1. ASSUME NEW j \in DOMAIN instances
        PROVE  LET was == versions[instances'[j].definition][instances'[j].version] IN
               /\ was.status # "DRAFT"
               /\ ValidVersion(was.steps)
               /\ \A k \in DOMAIN instances'[j].ran :
                     k \in StepNo /\ instances'[j].ran[k] = was.steps[k]
    <3>1. /\ row.status # "DRAFT" /\ ValidVersion(row.steps)
          /\ \A k \in DOMAIN ran : k \in StepNo /\ ran[k] = row.steps[k]
      BY DEF IInv, InstancesRunOneVersion
    <3>2. CASE j = i
      <4>1. instances'[j] = new
        BY <1>7, <1>8, <3>2
      <4>2. ASSUME NEW k \in DOMAIN longer
            PROVE  k \in StepNo /\ longer[k] = row.steps[k]
        <5>1. CASE k = next
          BY <1>1, <1>5, <5>1
        <5>2. CASE k # next
          <6>1. k \in DOMAIN ran
            BY <1>1, <1>4, <1>5, <5>2
          <6> QED
            BY <1>5, <3>1, <6>1
        <5> QED
          BY <5>1, <5>2
      <4> QED
        BY <1>6, <3>1, <4>1, <4>2
    <3>3. CASE j # i
      <4>1. instances'[j] = instances[j]
        BY <1>7, <1>8, <3>3
      <4> QED
        BY <4>1 DEF IInv, InstancesRunOneVersion
    <3> QED
      BY <3>2, <3>3
  <2> QED
    BY ZenonT(60), <1>1, <1>8, <2>1 DEF InstancesRunOneVersion
<1> QED
  BY <1>1, <1>9, <1>10 DEF IInv, Exclusive, FrozenIsValid, FrozenStays

\* Edits and changes of status, by the transaction that has the version locked.
LEMMA CommitStepKeeps ==
    ASSUME IInv, NEW r \in Request, CommitStep(r)
    PROVE  IInv' /\ FrozenStays
<1> DEFINE c == calls[r]
           old == versions[c.definition][c.version]
           steps == Placed(old.steps, c.seq, c.to, c.content)
           row == [old EXCEPT !.steps = steps]
<1>1. /\ c \in Call /\ c.op \in {"add", "update", "delete"} /\ InTransaction(c) /\ c.op # "draft"
      /\ c.definition \in Definition /\ c.version \in DOMAIN versions[c.definition]
      /\ Holds(c, versions)
  BY DEF CommitStep, IInv, TypeOK, InTransaction
<1>2. old \in VersionRow /\ old.status = "DRAFT"
  BY <1>1, VersionTypes DEF IInv, Holds
<1>3. steps \in [StepNo -> Content \cup {None}]
  BY <1>1, <1>2 DEF Placed, VersionRow, Call, Holds
<1>4. row \in VersionRow /\ row.status = "DRAFT"
  BY <1>2, <1>3 DEF VersionRow
<1>5. /\ versions' = [versions EXCEPT ![c.definition] = [versions[c.definition] EXCEPT ![c.version] = row]]
      /\ calls' = [calls EXCEPT ![r] = Idle] /\ UNCHANGED instances
  BY DEF CommitStep
<1> HIDE DEF row
<1> QED
  BY <1>1, <1>2, <1>4, <1>5, CommitKeeps

LEMMA CommitStatusKeeps ==
    ASSUME IInv, NEW r \in Request, CommitStatus(r)
    PROVE  IInv' /\ FrozenStays
<1> DEFINE c == calls[r]
           old == versions[c.definition][c.version]
           row == [old EXCEPT !.status = IF c.op = "publish" THEN "PUBLISHED" ELSE "RETIRED"]
<1>1. /\ c \in Call /\ c.op \in {"publish", "retire"} /\ InTransaction(c) /\ c.op # "draft"
      /\ c.definition \in Definition /\ c.version \in DOMAIN versions[c.definition]
      /\ Holds(c, versions)
  BY DEF CommitStatus, IInv, TypeOK, InTransaction
<1>2. /\ old \in VersionRow
      /\ c.op = "publish" => old.status = "DRAFT" /\ ValidVersion(old.steps)
      /\ c.op = "retire" => old.status = "PUBLISHED" /\ ValidVersion(old.steps)
  BY <1>1, VersionTypes DEF IInv, Holds, FrozenIsValid
<1>3. /\ row \in VersionRow /\ row.steps = old.steps
      /\ row.status = IF c.op = "publish" THEN "PUBLISHED" ELSE "RETIRED"
  BY <1>2 DEF VersionRow
<1>4. /\ versions' = [versions EXCEPT ![c.definition] = [versions[c.definition] EXCEPT ![c.version] = row]]
      /\ calls' = [calls EXCEPT ![r] = Idle] /\ UNCHANGED instances
  BY DEF CommitStatus
<1> HIDE DEF row
<1> QED
  BY <1>1, <1>2, <1>3, <1>4, CommitKeeps

-----------------------------------------------------------------------------
LEMMA InitHolds == Init => IInv
<1> SUFFICES ASSUME Init PROVE IInv
  OBVIOUS
<1>1. TypeOK
  BY EmptySeq, IdleIsCall, IdleHolds DEF Init, TypeOK
<1>2. Exclusive /\ \A r \in Request : Holds(calls[r], versions)
  BY IdleHolds DEF Init, Exclusive
<1> QED
  BY <1>1, <1>2 DEF Init, IInv, FrozenIsValid, InstancesRunOneVersion

\* What a request may note, from the idle record.
LEMMA CallFields ==
    ASSUME NEW op \in {"draft", "add", "update", "delete", "publish", "retire", "start"},
           NEW d \in Definition
    PROVE  /\ [Idle EXCEPT !.op = op, !.definition = d] \in Call
           /\ \A v \in Nat : [Idle EXCEPT !.op = op, !.definition = d, !.version = v] \in Call
           /\ \A v \in Nat, seq \in StepNo :
                 [Idle EXCEPT !.op = op, !.definition = d, !.version = v, !.seq = seq] \in Call
           /\ \A v \in Nat, to \in StepNo, content \in Content :
                 [Idle EXCEPT !.op = op, !.definition = d, !.version = v, !.to = to,
                              !.content = content] \in Call
           /\ \A v \in Nat, seq, to \in StepNo, content \in Content :
                 [Idle EXCEPT !.op = op, !.definition = d, !.version = v, !.seq = seq,
                              !.to = to, !.content = content] \in Call
<1>1. \A c \in Call : [c EXCEPT !.op = op] \in Call /\ [c EXCEPT !.definition = d] \in Call
  BY DEF Call
<1>2. \A c \in Call, v \in Nat : [c EXCEPT !.version = v] \in Call
  BY DEF Call
<1>3. \A c \in Call, seq \in StepNo : [c EXCEPT !.seq = seq] \in Call /\ [c EXCEPT !.to = seq] \in Call
  BY DEF Call, StepNo
<1>4. \A c \in Call, content \in Content : [c EXCEPT !.content = content] \in Call
  BY DEF Call
<1> QED
  BY <1>1, <1>2, <1>3, <1>4, IdleIsCall

\* Each way to open a request meets what OpenKeeps asks for.
LEMMA BeginDraftKeeps ==
    ASSUME IInv, NEW r \in Request, NEW d \in Definition, BeginDraft(r, d)
    PROVE  IInv' /\ FrozenStays
<1> DEFINE c == [Idle EXCEPT !.op = "draft", !.definition = d]
<1>1. c \in Call /\ c.op = "draft" /\ c.definition = d /\ c.version = 0
  BY CallFields DEF Idle
<1>2. Open(r, c) /\ ~Locked(d, 0)
  BY DEF BeginDraft, LockRow
<1> HIDE DEF c
<1> QED
  BY <1>1, <1>2, OpenKeeps DEF Holds

LEMMA BeginStartKeeps ==
    ASSUME IInv, NEW r \in Request, NEW d \in Definition, BeginStart(r, d)
    PROVE  IInv' /\ FrozenStays
<1>1. PICK v \in Latest(d) :
          Open(r, [Idle EXCEPT !.op = "start", !.definition = d, !.version = v])
  BY DEF BeginStart
<1>2. v \in DOMAIN versions[d] /\ versions[d][v].status = "PUBLISHED"
  BY DEF Latest, Published
<1>3. v \in Nat
  BY <1>2, VersionTypes DEF IInv
<1> DEFINE c == [Idle EXCEPT !.op = "start", !.definition = d, !.version = v]
<1>4. c \in Call /\ c.op = "start" /\ c.definition = d /\ c.version = v
  BY <1>3, CallFields DEF Idle
<1>5. Open(r, c)
  BY <1>1
<1> HIDE DEF c
<1> QED
  BY <1>2, <1>4, <1>5, OpenKeeps DEF Holds, InTransaction

LEMMA BeginStatusKeeps ==
    ASSUME IInv, NEW r \in Request, NEW d \in Definition, NEW v \in DOMAIN versions[d],
           BeginPublish(r, d, v) \/ BeginRetire(r, d, v)
    PROVE  IInv' /\ FrozenStays
<1> DEFINE c(op) == [Idle EXCEPT !.op = op, !.definition = d, !.version = v]
<1>1. v \in Nat
  BY VersionTypes DEF IInv
<1>2. ASSUME NEW op \in {"publish", "retire"}
      PROVE  c(op) \in Call /\ c(op).op = op /\ c(op).definition = d /\ c(op).version = v
  BY <1>1, CallFields DEF Idle
<1>3. CASE BeginPublish(r, d, v)
  <2>1. Open(r, c("publish")) /\ ~Locked(d, v)
    BY <1>3 DEF BeginPublish, LockRow
  <2>2. Holds(c("publish"), versions)
    BY <1>2, <1>3 DEF BeginPublish, Draft, Holds
  <2> HIDE DEF c
  <2> QED
    BY <1>2, <2>1, <2>2, OpenKeeps
<1>4. CASE BeginRetire(r, d, v)
  <2>1. Open(r, c("retire")) /\ ~Locked(d, v)
    BY <1>4 DEF BeginRetire, LockRow
  <2>2. Holds(c("retire"), versions)
    BY <1>2, <1>4 DEF BeginRetire, Published, Holds
  <2> HIDE DEF c
  <2> QED
    BY <1>2, <2>1, <2>2, OpenKeeps
<1> QED
  BY <1>3, <1>4

LEMMA BeginEditKeeps ==
    ASSUME IInv, NEW r \in Request, NEW d \in Definition, NEW v \in DOMAIN versions[d],
           NEW seq \in StepNo, NEW to \in StepNo, NEW content,
           \/ BeginDeleteStep(r, d, v, seq)
           \/ content \in Content /\ BeginAddStep(r, d, v, to, content)
           \/ content \in Content /\ BeginUpdateStep(r, d, v, seq, to, content)
    PROVE  IInv' /\ FrozenStays
<1> DEFINE del == [Idle EXCEPT !.op = "delete", !.definition = d, !.version = v, !.seq = seq]
           add == [Idle EXCEPT !.op = "add", !.definition = d, !.version = v, !.to = to,
                               !.content = content]
           upd == [Idle EXCEPT !.op = "update", !.definition = d, !.version = v, !.seq = seq,
                               !.to = to, !.content = content]
<1>1. v \in Nat
  BY VersionTypes DEF IInv
<1>2. versions[d][v].status = "DRAFT" /\ ~Locked(d, v)
  BY DEF BeginDeleteStep, BeginAddStep, BeginUpdateStep, Draft, LockRow
<1>3. CASE BeginDeleteStep(r, d, v, seq)
  <2>1. del \in Call /\ del.op = "delete" /\ del.definition = d /\ del.version = v
    BY <1>1, CallFields DEF Idle
  <2>2. Open(r, del)
    BY <1>3 DEF BeginDeleteStep
  <2> HIDE DEF del
  <2>3. Holds(del, versions)
    BY <1>2, <2>1 DEF Holds
  <2> QED
    BY <1>2, <2>1, <2>2, <2>3, OpenKeeps
<1>4. CASE content \in Content /\ BeginAddStep(r, d, v, to, content)
  <2>1. /\ add \in Call /\ add.op = "add" /\ add.definition = d /\ add.version = v
        /\ add.to = to /\ add.content = content
    BY ZenonT(60), <1>1, <1>4, CallFields DEF Idle
  <2>2. Open(r, add)
    BY <1>4 DEF BeginAddStep
  <2> HIDE DEF add
  <2>3. Holds(add, versions)
    BY <1>2, <1>4, <2>1 DEF Holds
  <2> QED
    BY <1>2, <2>1, <2>2, <2>3, OpenKeeps
<1>5. CASE content \in Content /\ BeginUpdateStep(r, d, v, seq, to, content)
  <2>1. /\ upd \in Call /\ upd.op = "update" /\ upd.definition = d /\ upd.version = v
        /\ upd.to = to /\ upd.content = content
    BY ZenonT(60), <1>1, <1>5, CallFields DEF Idle
  <2>2. Open(r, upd)
    BY <1>5 DEF BeginUpdateStep
  <2> HIDE DEF upd
  <2>3. Holds(upd, versions)
    BY <1>2, <1>5, <2>1 DEF Holds
  <2> QED
    BY <1>2, <2>1, <2>2, <2>3, OpenKeeps
<1> QED
  BY <1>3, <1>4, <1>5

LEMMA NextKeeps == IInv /\ [Next]_vars => IInv' /\ (FrozenStays \/ UNCHANGED vars)
<1> SUFFICES ASSUME IInv, [Next]_vars PROVE IInv' /\ (FrozenStays \/ UNCHANGED vars)
  OBVIOUS
<1>1. ASSUME NEW d \in Definition, CreateDefinition(d) PROVE IInv' /\ FrozenStays
  <2>1. versions' = [versions EXCEPT ![d] = Append(versions[d], NewVersion)]
    BY <1>1 DEF CreateDefinition
  <2> QED
    BY <1>1, <2>1, DraftKeeps DEF CreateDefinition
<1>2. ASSUME NEW r \in Request, CommitDraft(r) PROVE IInv' /\ FrozenStays
  <2> DEFINE d == calls[r].definition
  <2>1. d \in Definition /\ calls[r].op = "draft"
    BY <1>2 DEF CommitDraft, IInv, Holds
  <2>2. versions' = [versions EXCEPT ![d] = Append(versions[d], NewVersion)]
    BY <1>2 DEF CommitDraft
  <2> QED
    BY <1>2, <2>1, <2>2, DraftKeeps DEF CommitDraft
<1>3. CASE UNCHANGED vars
  <2>1. TypeOK' /\ Exclusive' /\ \A r \in Request : Holds(calls'[r], versions')
    BY <1>3 DEF vars, IInv, TypeOK, Exclusive
  <2> QED
    BY <1>3, <2>1 DEF vars, IInv, FrozenIsValid, InstancesRunOneVersion
<1>4. ASSUME NEW r \in Request, NEW d \in Definition, NEW v \in DOMAIN versions[d],
             NEW seq \in StepNo, NEW content \in Content,
             BeginAddStep(r, d, v, seq, content)
      PROVE  IInv' /\ FrozenStays
  BY <1>4, BeginEditKeeps
<1>5. ASSUME NEW r \in Request, NEW d \in Definition, NEW v \in DOMAIN versions[d],
             NEW seq \in StepNo, BeginDeleteStep(r, d, v, seq)
      PROVE  IInv' /\ FrozenStays
  BY <1>5, BeginEditKeeps
<1>6. ASSUME NEW r \in Request, NEW d \in Definition, NEW v \in DOMAIN versions[d],
             NEW seq \in StepNo, NEW to \in StepNo, NEW content \in Content,
             BeginUpdateStep(r, d, v, seq, to, content)
      PROVE  IInv' /\ FrozenStays
  BY <1>6, BeginEditKeeps
<1> QED
  BY <1>1, <1>2, <1>3, <1>4, <1>5, <1>6, AdvanceKeeps, AbandonKeeps, CommitStepKeeps,
     CommitStatusKeeps, CommitStartKeeps, BeginDraftKeeps, BeginStartKeeps, BeginStatusKeeps
     DEF Next

LEMMA Invariant == Spec => []IInv
BY InitHolds, NextKeeps, PTL DEF Spec

-----------------------------------------------------------------------------
\* The tables keep their shape and references their targets.
THEOREM DefinitionTypes == Spec => []TypeOK
<1>1. IInv => TypeOK
  BY DEF IInv
<1> QED
  BY <1>1, Invariant, PTL

\* Publishing freezes a version, however many requests edit, publish and retire.
THEOREM PublishedFrozenHolds == Spec => PublishedFrozen
<1>1. IInv /\ [Next]_vars => [FrozenStays]_vars
  BY NextKeeps
<1>2. PublishedFrozen <=> [][FrozenStays]_vars
  BY PTL DEF PublishedFrozen, FrozenStays
<1> QED
  BY <1>1, <1>2, Invariant, PTL DEF Spec

\* What Workflow assumes of the versions it is given: an instance runs the steps
\* of one version, and publish validated them.
THEOREM InstancesRunOneVersionHolds == Spec => []InstancesRunOneVersion
<1>1. IInv => InstancesRunOneVersion
  BY DEF IInv
<1> QED
  BY <1>1, Invariant, PTL
=============================================================================
