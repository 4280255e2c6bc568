-------------------------- MODULE DataVaultProofs --------------------------
(***************************************************************************)
(* Theorems of DataVault, for any users, roles, records, requests and      *)
(* inputs: the versions of a record and its row are one history that only  *)
(* grows, although no write is a transaction, and who changes a record     *)
(* held every right that the change asks for.                              *)
(***************************************************************************)
EXTENDS DataVault, SequenceTheorems, TLAPS

\* All that is true of the caller now has been seen of it.
SeenNow(c) ==
    /\ account[c.user] \in c.seen.account
    /\ assigned[c.user] \subseteq c.seen.roles
    /\ grants[c.user] \subseteq c.seen.grants

\* The check under way.
CheckOf(c) == Checks(c)[c.passed + 1]

\* The checks a call has passed were of what its caller held since the row was
\* read, and it acts once they are all passed.
Checked(c) ==
    /\ c.op = "create" => c.stage # "read" /\ c.input \in Content
    /\ c.stage = "read" => c.passed = 0
    /\ c.stage # "merge" => c.merged = None
    /\ c.stage # "read" =>
          /\ c.op # "create" => c.read # None
          /\ \A i \in 1 .. c.passed : Entitled(c, Checks(c)[i])
    /\ c.stage \in {"account", "roles", "grants"} => c.passed < Len(Checks(c))
    /\ c.stage \in {"write", "merge"} => c.passed = Len(Checks(c))
    /\ c.stage \in {"roles", "grants"} => "active" \in c.seen.account
    /\ c.stage = "grants" =>
          PermissionCovers(c.seen.roles, <<CheckOf(c).action, c.tier>>, CheckOf(c).target)

\* The row a call read is the record's, or one that has been replaced since.
ReadFits(c, rs) ==
    c.read # None =>
       /\ rs[c.record] # None
       /\ c.read.version <= rs[c.record].version
       /\ c.read.version = rs[c.record].version => c.read = rs[c.record]

\* A call that has saved the version it read will replace that row and no other.
Merging(c, rs, vs) ==
    c.stage = "merge" =>
       /\ c.op \in {"update", "archive"}
       /\ rs[c.record] = c.read
       /\ c.read.version < MaxVersion
       /\ vs[c.record][c.read.version] = c.read.content
       /\ c.merged # None => c.op = "update" /\ c.merged = c.read

CallsHold ==
    \A r \in Request : calls[r] # None =>
       /\ SeenNow(calls[r])
       /\ Checked(calls[r])
       /\ ReadFits(calls[r], records)
       /\ Merging(calls[r], records, versions)

\* One call at a time.
OneMerges ==
    \A r, q \in Request :
       At(r, "merge") /\ At(q, "merge") /\ calls[r].record = calls[q].record => r = q

\* Every version before the row's is kept, none after it, and its own, if it is
\* kept already, as it is.
VersionsFit(row, vs) ==
    /\ row = None => \A v \in 1 .. MaxVersion : vs[v] = None
    /\ row # None =>
          /\ row.version \in 1 .. MaxVersion
          /\ \A v \in 1 .. MaxVersion :
                /\ v < row.version => vs[v] # None
                /\ v = row.version => vs[v] \in {None, row.content}
                /\ v > row.version => vs[v] = None

RecordsHold == \A d \in Record : VersionsFit(records[d], versions[d])

Typed ==
    /\ AccessTypes
    /\ records \in [Record -> Row \cup {None}]
    /\ versions \in [Record -> [1 .. MaxVersion -> Content \cup {None}]]
    /\ calls \in [Request -> Call \cup {None}]

IInv ==
    /\ Typed
    /\ CallsHold
    /\ OneMerges
    /\ RecordsHold

-----------------------------------------------------------------------------
\* Calls and their fields

CallAt(op, user, record, input, stage, read, passed, tier, merged, seen) ==
    [op |-> op, user |-> user, record |-> record, input |-> input, stage |-> stage,
     read |-> read, passed |-> passed, tier |-> tier, merged |-> merged, seen |-> seen]

\* c at another stage, with another row read, another check under way and another
\* row to merge into.
Moved(c, stage, read, passed, tier, merged, seen) ==
    CallAt(c.op, c.user, c.record, c.input, stage, read, passed, tier, merged, seen)

Tier == {"ordinary", "privileged"}
Sight == [account : SUBSET {"active", "disabled"}, roles : SUBSET Role, grants : SUBSET Scope]

LEMMA CallFields ==
    ASSUME NEW c \in Call
    PROVE  /\ c.op \in Operation /\ c.user \in User /\ c.record \in Record
           /\ c.input \in Input /\ c.stage \in Stage /\ c.read \in Row \cup {None}
           /\ c.passed \in Nat /\ c.tier \in Tier /\ c.merged \in Row \cup {None}
           /\ c.seen \in Sight
BY DEF Call, Tier, Sight

LEMMA CallIs ==
    ASSUME NEW c \in Call
    PROVE  c = Moved(c, c.stage, c.read, c.passed, c.tier, c.merged, c.seen)
BY DEF Call, Moved, CallAt

LEMMA MovedFields ==
    ASSUME NEW c, NEW stage, NEW read, NEW passed, NEW tier, NEW merged, NEW seen,
           NEW k, k = Moved(c, stage, read, passed, tier, merged, seen)
    PROVE  /\ k.op = c.op /\ k.user = c.user /\ k.record = c.record /\ k.input = c.input
           /\ k.stage = stage /\ k.read = read /\ k.passed = passed /\ k.tier = tier
           /\ k.merged = merged /\ k.seen = seen
BY DEF Moved, CallAt

LEMMA MovedCall ==
    ASSUME NEW c \in Call, NEW stage \in Stage, NEW read \in Row \cup {None},
           NEW passed \in Nat, NEW tier \in Tier, NEW merged \in Row \cup {None},
           NEW seen \in Sight
    PROVE  Moved(c, stage, read, passed, tier, merged, seen) \in Call
BY CallFields DEF Moved, CallAt, Call, Tier, Sight

\* The changes of a call that the actions make.
LEMMA Staged ==
    ASSUME NEW c \in Call, NEW x
    PROVE  [c EXCEPT !.stage = x]
              = Moved(c, x, c.read, c.passed, c.tier, c.merged, c.seen)
<1>1. [Moved(c, c.stage, c.read, c.passed, c.tier, c.merged, c.seen)
          EXCEPT !.stage = x]
         = Moved(c, x, c.read, c.passed, c.tier, c.merged, c.seen)
  BY DEF Moved, CallAt
<1> QED
  BY <1>1, CallIs, Zenon

LEMMA ReadTwice ==
    ASSUME NEW c \in Call, NEW x
    PROVE  [c EXCEPT !.merged = x]
              = Moved(c, c.stage, c.read, c.passed, c.tier, x, c.seen)
<1>1. [Moved(c, c.stage, c.read, c.passed, c.tier, c.merged, c.seen)
          EXCEPT !.merged = x]
         = Moved(c, c.stage, c.read, c.passed, c.tier, x, c.seen)
  BY DEF Moved, CallAt
<1> QED
  BY <1>1, CallIs, Zenon

LEMMA Sighted ==
    ASSUME NEW c \in Call, NEW x
    PROVE  [c EXCEPT !.seen = x]
              = Moved(c, c.stage, c.read, c.passed, c.tier, c.merged, x)
<1>1. [Moved(c, c.stage, c.read, c.passed, c.tier, c.merged, c.seen)
          EXCEPT !.seen = x]
         = Moved(c, c.stage, c.read, c.passed, c.tier, c.merged, x)
  BY DEF Moved, CallAt
<1> QED
  BY <1>1, CallIs, Zenon

LEMMA Found ==
    ASSUME NEW c \in Call, NEW row, NEW seen
    PROVE  [c EXCEPT !.stage = "account", !.read = row, !.seen = seen]
              = Moved(c, "account", row, c.passed, c.tier, c.merged, seen)
<1>1. [c EXCEPT !.stage = "account", !.read = row, !.seen = seen]
         = [[[c EXCEPT !.stage = "account"] EXCEPT !.read = row] EXCEPT !.seen = seen]
  BY Zenon
<1>2. [c EXCEPT !.stage = "account"]
         = Moved(c, "account", c.read, c.passed, c.tier, c.merged, c.seen)
  BY Staged
<1>3. [Moved(c, "account", c.read, c.passed, c.tier, c.merged, c.seen)
          EXCEPT !.read = row]
         = Moved(c, "account", row, c.passed, c.tier, c.merged, c.seen)
  BY DEF Moved, CallAt
<1>4. [Moved(c, "account", row, c.passed, c.tier, c.merged, c.seen)
          EXCEPT !.seen = seen]
         = Moved(c, "account", row, c.passed, c.tier, c.merged, seen)
  BY DEF Moved, CallAt
<1> QED
  BY <1>1, <1>2, <1>3, <1>4, Zenon

LEMMA Advanced ==
    ASSUME NEW c \in Call, NEW stage, NEW passed
    PROVE  [c EXCEPT !.stage = stage, !.passed = passed, !.tier = "ordinary"]
              = Moved(c, stage, c.read, passed, "ordinary", c.merged, c.seen)
<1>1. [c EXCEPT !.stage = stage, !.passed = passed, !.tier = "ordinary"]
         = [[[c EXCEPT !.stage = stage] EXCEPT !.passed = passed] EXCEPT !.tier = "ordinary"]
  BY Zenon
<1>2. [c EXCEPT !.stage = stage]
         = Moved(c, stage, c.read, c.passed, c.tier, c.merged, c.seen)
  BY Staged
<1>3. [Moved(c, stage, c.read, c.passed, c.tier, c.merged, c.seen)
          EXCEPT !.passed = passed]
         = Moved(c, stage, c.read, passed, c.tier, c.merged, c.seen)
  BY DEF Moved, CallAt
<1>4. [Moved(c, stage, c.read, passed, c.tier, c.merged, c.seen)
          EXCEPT !.tier = "ordinary"]
         = Moved(c, stage, c.read, passed, "ordinary", c.merged, c.seen)
  BY DEF Moved, CallAt
<1> QED
  BY <1>1, <1>2, <1>3, <1>4, Zenon

LEMMA Retried ==
    ASSUME NEW c \in Call
    PROVE  [c EXCEPT !.stage = "account", !.tier = "privileged"]
              = Moved(c, "account", c.read, c.passed, "privileged", c.merged, c.seen)
<1>1. [c EXCEPT !.stage = "account", !.tier = "privileged"]
         = [[c EXCEPT !.stage = "account"] EXCEPT !.tier = "privileged"]
  BY Zenon
<1>2. [c EXCEPT !.stage = "account"]
         = Moved(c, "account", c.read, c.passed, c.tier, c.merged, c.seen)
  BY Staged
<1>3. [Moved(c, "account", c.read, c.passed, c.tier, c.merged, c.seen)
          EXCEPT !.tier = "privileged"]
         = Moved(c, "account", c.read, c.passed, "privileged", c.merged, c.seen)
  BY DEF Moved, CallAt
<1> QED
  BY <1>1, <1>2, <1>3, Zenon

\* The checks of a call depend on its operation, its input and the row it read.
LEMMA SameChecks ==
    ASSUME NEW c, NEW k, k.op = c.op, k.input = c.input, k.read = c.read
    PROVE  Checks(k) = Checks(c)
BY DEF Checks

\* What a caller was once entitled to, it stays entitled to for this call.
LEMMA EntitledGrows ==
    ASSUME NEW c, NEW k, NEW check, Entitled(c, check),
           c.seen.account \subseteq k.seen.account, c.seen.roles \subseteq k.seen.roles,
           c.seen.grants \subseteq k.seen.grants
    PROVE  Entitled(k, check)
BY DEF Entitled, PermissionCovers, GrantCovers

LEMMA Lengthened ==
    ASSUME NEW a, NEW b, NEW c
    PROVE  <<a, b>> \o <<c>> = <<a, b, c>>
<1> DEFINE S == {a, b, c}
           s == <<a, b>> \o <<c>>
           t == <<a, b, c>>
<1>1. a \in S /\ b \in S /\ c \in S
  OBVIOUS
<1> HIDE DEF S
<1>2. t \in Seq(S) /\ s \in Seq(S)
  BY <1>1
<1>3. /\ Len(s) = 3 /\ s[1] = a /\ s[2] = b /\ s[3] = c
      /\ Len(t) = 3 /\ t[1] = a /\ t[2] = b /\ t[3] = c
  OBVIOUS
<1>4. \A i \in 1 .. 3 : s[i] = t[i]
  <2> HIDE DEF s, t
  <2>1. \A i \in 1 .. 3 : i = 1 \/ i = 2 \/ i = 3
    OBVIOUS
  <2> QED
    BY <1>3, <2>1
<1> HIDE DEF s, t
<1>5. s = t
  BY <1>2, <1>3, <1>4, SeqEqual
<1> QED
  BY <1>5 DEF s, t

LEMMA ChecksOf ==
    ASSUME NEW c
    PROVE  /\ c.op = "get" => Checks(c) = <<Check("read", c.read.content)>>
           /\ c.op = "create" => Checks(c) = <<Check("create", c.input)>>
           /\ c.op = "archive" =>
                 Checks(c) = <<Check("read", c.read.content), Check("archive", c.read.content)>>
           /\ c.op = "update" =>
                 LET new == Check("update", Merge(c.read.content, c.input)) IN
                 Checks(c) = IF new.target = Target(c.read.content)
                             THEN <<Check("read", c.read.content),
                                    Check("update", c.read.content)>>
                             ELSE <<Check("read", c.read.content),
                                    Check("update", c.read.content), new>>
<1>1. /\ c.op = "get" => Checks(c) = <<Check("read", c.read.content)>>
      /\ c.op = "create" => Checks(c) = <<Check("create", c.input)>>
      /\ c.op = "archive" =>
            Checks(c) = <<Check("read", c.read.content), Check("archive", c.read.content)>>
  BY DEF Checks
<1>2. ASSUME c.op = "update"
      PROVE  LET new == Check("update", Merge(c.read.content, c.input)) IN
             Checks(c) = IF new.target = Target(c.read.content)
                         THEN <<Check("read", c.read.content),
                                Check("update", c.read.content)>>
                         ELSE <<Check("read", c.read.content),
                                Check("update", c.read.content), new>>
  <2> DEFINE a == Check("read", c.read.content)
             b == Check("update", c.read.content)
             new == Check("update", Merge(c.read.content, c.input))
  <2>1. Checks(c) = <<a, b>> \o IF new.target = Target(c.read.content) THEN <<>> ELSE <<new>>
    BY <1>2 DEF Checks
  <2> HIDE DEF a, b, new
  <2>2. <<a, b>> \o <<>> = <<a, b>> /\ <<a, b>> \o <<new>> = <<a, b, new>>
    BY Lengthened
  <2>3. Checks(c) = IF new.target = Target(c.read.content) THEN <<a, b>> ELSE <<a, b, new>>
    BY <2>1, <2>2
  <2> QED
    BY <2>3 DEF a, b, new
<1> QED
  BY <1>1, <1>2

LEMMA SomeCheck ==
    ASSUME NEW c, c.op \in Operation
    PROVE  Len(Checks(c)) \in Nat \ {0}
<1>1. CASE c.op = "update"
  <2> DEFINE a == Check("read", c.read.content)
             b == Check("update", c.read.content)
             new == Check("update", Merge(c.read.content, c.input))
  <2>1. Checks(c) = <<a, b>> \/ Checks(c) = <<a, b, new>>
    BY <1>1, ChecksOf
  <2> HIDE DEF a, b, new
  <2> QED
    BY <2>1
<1>2. CASE c.op # "update"
  <2>1. \/ \E a : Checks(c) = <<a>>
        \/ \E a, b : Checks(c) = <<a, b>>
    BY <1>2, ChecksOf, Zenon DEF Operation
  <2> QED
    BY <2>1
<1> QED
  BY <1>1, <1>2

-----------------------------------------------------------------------------
\* Steps of one call that leave the tables alone

LEMMA OtherCalls ==
    ASSUME Typed, NEW r \in Request, NEW k \in Call \cup {None},
           calls' = [calls EXCEPT ![r] = k]
    PROVE  /\ calls' \in [Request -> Call \cup {None}]
           /\ \A q \in Request : calls'[q] = IF q = r THEN k ELSE calls[q]
BY DEF Typed

LEMMA CallMoves ==
    ASSUME IInv, NEW r \in Request, NEW k \in Call \cup {None},
           calls' = [calls EXCEPT ![r] = k],
           UNCHANGED <<access, records, versions>>,
           k # None =>
              /\ SeenNow(k) /\ Checked(k) /\ ReadFits(k, records)
              /\ Merging(k, records, versions)
              /\ k.stage = "merge" => At(r, "merge") /\ k.record = calls[r].record
    PROVE  IInv'
<1>0. UNCHANGED <<account, assigned, grants, records, versions>>
  BY DEF access
<1>1. /\ calls' \in [Request -> Call \cup {None}]
      /\ \A q \in Request : calls'[q] = IF q = r THEN k ELSE calls[q]
  BY OtherCalls DEF IInv
<1>2. Typed'
  BY <1>0, <1>1 DEF IInv, Typed, AccessTypes
<1>3. CallsHold'
  <2> SUFFICES ASSUME NEW q \in Request, calls'[q] # None
               PROVE  /\ SeenNow(calls[q])'
                      /\ Checked(calls'[q]) /\ ReadFits(calls'[q], records')
                      /\ Merging(calls'[q], records', versions')
    BY DEF CallsHold
  <2>1. /\ SeenNow(calls'[q]) /\ Checked(calls'[q]) /\ ReadFits(calls'[q], records)
        /\ Merging(calls'[q], records, versions)
    BY <1>1 DEF IInv, CallsHold
  <2> QED
    BY <1>0, <2>1 DEF SeenNow
<1>4. OneMerges'
  <2> SUFFICES ASSUME NEW p \in Request, NEW q \in Request,
                      calls'[p] # None, calls'[p].stage = "merge",
                      calls'[q] # None, calls'[q].stage = "merge",
                      calls'[p].record = calls'[q].record
               PROVE  p = q
    BY DEF OneMerges, At
  <2>1. /\ At(p, "merge") /\ calls'[p].record = calls[p].record
        /\ At(q, "merge") /\ calls'[q].record = calls[q].record
    BY <1>1 DEF At
  <2> QED
    BY <2>1 DEF IInv, OneMerges
<1>5. RecordsHold'
  BY <1>0 DEF IInv, RecordsHold
<1> QED
  BY <1>2, <1>3, <1>4, <1>5 DEF IInv

\* A call is answered, refused or stops.
LEMMA CallEnds ==
    ASSUME IInv, NEW r \in Request, calls' = [calls EXCEPT ![r] = None],
           UNCHANGED <<access, records, versions>>
    PROVE  IInv'
BY CallMoves

\* A step from one check to the next.
LEMMA CheckMoves ==
    ASSUME IInv, NEW r \in Request, NEW c, c = calls[r], c # None,
           c.stage \in {"account", "roles", "grants"},
           NEW stage \in {"account", "roles", "grants", "write"}, NEW passed \in Nat,
           NEW tier \in Tier,
           NEW k, k = Moved(c, stage, c.read, passed, tier, c.merged, c.seen),
           calls' = [calls EXCEPT ![r] = k],
           UNCHANGED <<access, records, versions>>,
           \A i \in 1 .. passed : Entitled(c, Checks(c)[i]),
           IF stage = "write" THEN passed = Len(Checks(c)) ELSE passed < Len(Checks(c)),
           stage \in {"roles", "grants"} => "active" \in c.seen.account,
           stage = "grants" =>
              PermissionCovers(c.seen.roles, <<Checks(c)[passed + 1].action, tier>>,
                               Checks(c)[passed + 1].target)
    PROVE  IInv'
<1>1. c \in Call
  BY DEF IInv, Typed
<1>2. /\ k.op = c.op /\ k.user = c.user /\ k.record = c.record /\ k.input = c.input
      /\ k.stage = stage /\ k.read = c.read /\ k.passed = passed /\ k.tier = tier
      /\ k.merged = c.merged /\ k.seen = c.seen
  BY MovedFields
<1>3. k \in Call
  BY <1>1, CallFields, MovedCall DEF Stage
<1>4. SeenNow(c) /\ Checked(c) /\ ReadFits(c, records)
  BY DEF IInv, CallsHold
<1>5. Checks(k) = Checks(c)
  BY <1>2, SameChecks
<1>6. \A check : Entitled(c, check) => Entitled(k, check)
  BY <1>2 DEF Entitled
<1>7. Checked(k)
  <2>1. /\ k.op = "create" => k.stage # "read" /\ k.input \in Content
        /\ k.stage = "read" => k.passed = 0
        /\ k.stage # "merge" => k.merged = None
        /\ k.op # "create" => k.read # None
    BY <1>2, <1>4 DEF Checked
  <2>2. \A i \in 1 .. k.passed : Entitled(k, Checks(k)[i])
    BY <1>2, <1>5, <1>6
  <2>3. /\ k.stage \in {"account", "roles", "grants"} => k.passed < Len(Checks(k))
        /\ k.stage \in {"write", "merge"} => k.passed = Len(Checks(k))
        /\ k.stage \in {"roles", "grants"} => "active" \in k.seen.account
    BY <1>2, <1>5
  <2>4. k.stage = "grants" =>
           PermissionCovers(k.seen.roles, <<CheckOf(k).action, k.tier>>, CheckOf(k).target)
    BY <1>2, <1>5 DEF CheckOf
  <2> QED
    BY <2>1, <2>2, <2>3, <2>4 DEF Checked
<1>8. SeenNow(k) /\ ReadFits(k, records)
  BY <1>2, <1>4 DEF SeenNow, ReadFits
<1>9. Merging(k, records, versions) /\ k.stage # "merge"
  BY <1>2 DEF Merging
<1> QED
  BY <1>3, <1>7, <1>8, <1>9, CallMoves

LEMMA SeenTyped ==
    ASSUME Typed, NEW u \in User
    PROVE  Seen(u) \in Sight
BY DEF Typed, AccessTypes, Seen, Sight

LEMMA OpenKeeps ==
    ASSUME IInv, NEW r \in Request, NEW u \in User, NEW op \in Operation, NEW d \in Record,
           NEW input \in Input, op = "create" => input \in Content,
           Open(r, u, op, d, input)
    PROVE  IInv'
<1> DEFINE stage == IF op = "create" THEN "account" ELSE "read"
           k == CallAt(op, u, d, input, stage, None, 0, "ordinary", None, Seen(u))
<1>1. calls' = [calls EXCEPT ![r] = k] /\ UNCHANGED <<access, records, versions>>
  BY DEF Open, CallAt
<1>2. /\ k.op = op /\ k.user = u /\ k.record = d /\ k.input = input /\ k.stage = stage
      /\ k.read = None /\ k.passed = 0 /\ k.merged = None /\ k.seen = Seen(u)
  BY DEF CallAt
<1>3. Seen(u) \in Sight
  BY SeenTyped DEF IInv
<1>4. k \in Call
  BY <1>3 DEF Call, CallAt, Stage, Sight
<1> HIDE DEF k
<1>5. SeenNow(k)
  BY <1>2 DEF SeenNow, Seen
<1>6. Len(Checks(k)) \in Nat \ {0}
  BY <1>2, SomeCheck
<1>7. Checked(k)
  BY <1>2, <1>6 DEF Checked
<1>8. ReadFits(k, records) /\ Merging(k, records, versions) /\ k.stage # "merge"
  BY <1>2 DEF ReadFits, Merging
<1> QED
  BY <1>1, <1>4, <1>5, <1>7, <1>8, CallMoves

LEMMA ReceiveKeeps ==
    ASSUME IInv, NEW r \in Request, Receive(r)
    PROVE  IInv'
<1> DEFINE nothing == [f \in {"entity", "class", "text", "status"} |-> None]
<1>1. nothing \in Input
  <2>1. nothing = [entity |-> None, class |-> None, text |-> None, status |-> None]
    OBVIOUS
  <2> HIDE DEF nothing
  <2> QED
    BY <2>1 DEF Input
<1>2. Inserts \subseteq Content /\ Inserts \subseteq Input /\ Updates \subseteq Input
  BY DataVaultAssumption DEF Content, Input
<1> HIDE DEF nothing
<1>3. PICK u \in User, d \in Record :
        \/ \E op \in {"get", "archive"} : Open(r, u, op, d, nothing)
        \/ \E i \in Inserts : Open(r, u, "create", d, i)
        \/ \E i \in Updates : Open(r, u, "update", d, i)
  BY Zenon DEF Receive, nothing
<1>4. CASE \E op \in {"get", "archive"} : Open(r, u, op, d, nothing)
  BY <1>1, <1>4, OpenKeeps DEF Operation
<1>5. CASE \E i \in Inserts : Open(r, u, "create", d, i)
  BY <1>2, <1>5, OpenKeeps DEF Operation
<1>6. CASE \E i \in Updates : Open(r, u, "update", d, i)
  BY <1>2, <1>6, OpenKeeps DEF Operation
<1> QED
  BY <1>3, <1>4, <1>5, <1>6

LEMMA FindRecordKeeps ==
    ASSUME IInv, NEW r \in Request, FindRecord(r)
    PROVE  IInv'
<1> DEFINE c == calls[r]
           row == records[c.record]
           k == Moved(c, "account", row, c.passed, c.tier, c.merged, Seen(c.user))
<1>1. /\ c # None /\ c.stage = "read" /\ row # None
      /\ calls' = [calls EXCEPT ![r] = [c EXCEPT !.stage = "account", !.read = row,
                                                 !.seen = Seen(c.user)]]
      /\ UNCHANGED <<access, records, versions>>
  BY Zenon DEF FindRecord, At
<1>2. c \in Call
  BY <1>1 DEF IInv, Typed
<1>3. row \in Row
  BY <1>1, <1>2, CallFields DEF IInv, Typed
<1>4. Seen(c.user) \in Sight
  BY <1>2, CallFields, SeenTyped DEF IInv
<1>5. k \in Call
  BY <1>2, <1>3, <1>4, CallFields, MovedCall DEF Stage
<1>6. calls' = [calls EXCEPT ![r] = k]
  <2>1. [c EXCEPT !.stage = "account", !.read = row, !.seen = Seen(c.user)] = k
    BY <1>2, Found, Zenon
  <2> QED
    BY <1>1, <2>1, Zenon
<1>7. /\ k.op = c.op /\ k.user = c.user /\ k.record = c.record /\ k.input = c.input
      /\ k.stage = "account" /\ k.read = row /\ k.passed = c.passed /\ k.merged = c.merged
      /\ k.seen = Seen(c.user)
  BY MovedFields
<1>8. c.passed = 0 /\ c.merged = None /\ c.op # "create" /\ c.op \in Operation
  BY <1>1, <1>2, CallFields DEF IInv, CallsHold, Checked
<1> HIDE DEF k
<1>9. Len(Checks(k)) \in Nat \ {0}
  BY <1>7, <1>8, SomeCheck
<1>10. Checked(k)
  BY <1>1, <1>7, <1>8, <1>9 DEF Checked
<1>11. SeenNow(k)
  BY <1>7 DEF SeenNow, Seen
<1>12. row.version \in Nat
  BY <1>3 DEF Row
<1>13. ReadFits(k, records) /\ Merging(k, records, versions) /\ k.stage # "merge"
  BY <1>1, <1>7, <1>12 DEF ReadFits, Merging
<1> QED
  BY <1>1, <1>5, <1>6, <1>10, <1>11, <1>13, CallMoves

\* One read finds what it looks for: what the caller has now, it has been seen to have.
LEMMA CheckPassesKeeps ==
    ASSUME IInv, NEW r \in Request, CheckPasses(r)
    PROVE  IInv'
<1> PICK c : c = calls[r]
  OBVIOUS
<1> DEFINE n == Len(Checks(c))
           check == Checks(c)[c.passed + 1]
           stage == IF c.passed + 1 = n THEN "write" ELSE "account"
<1>1. /\ c # None /\ c.stage \in {"account", "roles", "grants"}
      /\ ReadPasses(c.stage, c.user, <<check.action, c.tier>>, check.target)
      /\ UNCHANGED <<access, records, versions>>
  BY DEF CheckPasses
<1>2. c \in Call
  BY <1>1 DEF IInv, Typed
<1>3. SeenNow(c) /\ Checked(c)
  BY <1>1 DEF IInv, CallsHold
<1>4. /\ c.passed \in Nat /\ c.tier \in Tier /\ n \in Nat /\ c.passed < n
      /\ \A i \in 1 .. c.passed : Entitled(c, Checks(c)[i])
  BY <1>1, <1>2, <1>3, CallFields, SomeCheck DEF Checked
<1>5. CASE c.stage = "account"
  <2>1. calls' = [calls EXCEPT ![r] = [c EXCEPT !.stage = "roles"]]
    BY <1>5, Zenon DEF CheckPasses
  <2>2. calls' = [calls EXCEPT ![r] = Moved(c, "roles", c.read, c.passed, c.tier, c.merged,
                                            c.seen)]
    BY <1>2, <2>1, Staged, Zenon
  <2>3. "active" \in c.seen.account
    BY <1>1, <1>3, <1>5 DEF ReadPasses, SeenNow
  <2> QED
    BY <1>1, <1>4, <2>2, <2>3, CheckMoves
<1>6. CASE c.stage = "roles"
  <2>1. calls' = [calls EXCEPT ![r] = [c EXCEPT !.stage = "grants"]]
    BY <1>6, Zenon DEF CheckPasses
  <2>2. calls' = [calls EXCEPT ![r] = Moved(c, "grants", c.read, c.passed, c.tier, c.merged,
                                            c.seen)]
    BY <1>2, <2>1, Staged, Zenon
  <2>3. "active" \in c.seen.account
    BY <1>3, <1>6 DEF Checked
  <2>4. PermissionCovers(c.seen.roles, <<check.action, c.tier>>, check.target)
    BY <1>1, <1>3, <1>6 DEF ReadPasses, SeenNow, PermissionCovers
  <2> QED
    BY <1>1, <1>4, <2>2, <2>3, <2>4, CheckMoves
<1>7. CASE c.stage = "grants"
  <2>1. calls' = [calls EXCEPT ![r] = [c EXCEPT !.stage = stage, !.passed = c.passed + 1,
                                                !.tier = "ordinary"]]
    BY <1>7, Zenon DEF CheckPasses
  <2>2. calls' = [calls EXCEPT ![r] = Moved(c, stage, c.read, c.passed + 1, "ordinary",
                                            c.merged, c.seen)]
    <3>1. [c EXCEPT !.stage = stage, !.passed = c.passed + 1, !.tier = "ordinary"]
             = Moved(c, stage, c.read, c.passed + 1, "ordinary", c.merged, c.seen)
      <4> HIDE DEF stage
      <4> QED
        BY <1>2, Advanced
    <3> QED
      BY <2>1, <3>1, Zenon
  <2>3. Entitled(c, check)
    <3>1. "active" \in c.seen.account
      BY <1>3, <1>7 DEF Checked
    <3>2. PermissionCovers(c.seen.roles, <<check.action, c.tier>>, check.target)
      BY <1>3, <1>7 DEF Checked, CheckOf
    <3>3. GrantCovers(c.seen.grants, check.target)
      BY <1>1, <1>3, <1>7 DEF ReadPasses, SeenNow, GrantCovers
    <3> QED
      BY <1>4, <3>1, <3>2, <3>3, Zenon DEF Entitled, Tier
  <2>4. c.passed + 1 \in Nat /\ IF stage = "write" THEN c.passed + 1 = n ELSE c.passed + 1 < n
    BY <1>4
  <2>5. \A i \in 1 .. c.passed + 1 : Entitled(c, Checks(c)[i])
    <3>1. \A i \in 1 .. c.passed + 1 : i \in 1 .. c.passed \/ i = c.passed + 1
      BY <1>4
    <3> QED
      BY <1>4, <2>3, <3>1
  <2>6. stage \in {"account", "roles", "grants", "write"} /\ stage \notin {"roles", "grants"}
    OBVIOUS
  <2>7. "ordinary" \in Tier
    BY DEF Tier
  <2> HIDE DEF stage, check
  <2> QED
    BY <1>1, <2>2, <2>4, <2>5, <2>6, <2>7, CheckMoves
<1> QED
  BY <1>1, <1>5, <1>6, <1>7

LEMMA CheckFailsKeeps ==
    ASSUME IInv, NEW r \in Request, CheckFails(r)
    PROVE  IInv'
<1> PICK c : c = calls[r]
  OBVIOUS
<1> DEFINE again == c.tier = "ordinary" /\ Checks(c)[c.passed + 1].target.class = 5
<1>0. calls' = [calls EXCEPT ![r] =
                   IF again THEN [c EXCEPT !.stage = "account", !.tier = "privileged"]
                   ELSE None]
  BY Zenon DEF CheckFails
<1>1. /\ c # None /\ c.stage \in {"account", "roles", "grants"}
      /\ UNCHANGED <<access, records, versions>>
  BY DEF CheckFails
<1>2. c \in Call
  BY <1>1 DEF IInv, Typed
<1>3. Checked(c)
  BY <1>1 DEF IInv, CallsHold
<1>4. /\ c.passed \in Nat /\ c.passed < Len(Checks(c))
      /\ \A i \in 1 .. c.passed : Entitled(c, Checks(c)[i])
  BY <1>1, <1>2, <1>3, CallFields DEF Checked
<1>5. CASE again
  <2>1. calls' = [calls EXCEPT ![r] = [c EXCEPT !.stage = "account", !.tier = "privileged"]]
    BY <1>0, <1>5, Zenon
  <2>2. calls' = [calls EXCEPT ![r] = Moved(c, "account", c.read, c.passed, "privileged",
                                            c.merged, c.seen)]
    BY <1>2, <2>1, Retried, Zenon
  <2>3. "privileged" \in Tier
    BY DEF Tier
  <2> QED
    BY <1>1, <1>4, <2>2, <2>3, CheckMoves
<1>6. CASE ~ again
  <2>1. calls' = [calls EXCEPT ![r] = None]
    BY <1>0, <1>6, Zenon
  <2> QED
    BY <1>1, <2>1, CallEnds
<1> QED
  BY <1>5, <1>6

-----------------------------------------------------------------------------
\* Steps that write a table

\* What is known of a call that acts.
LEMMA ActingCall ==
    ASSUME IInv, NEW r \in Request, calls[r] # None, calls[r].stage \in {"write", "merge"}
    PROVE  /\ calls[r] \in Call /\ calls[r].record \in Record
           /\ calls[r].op # "create" =>
                 /\ calls[r].read \in Row
                 /\ records[calls[r].record] \in Row
           /\ calls[r].op = "create" => calls[r].input \in Content
<1>1. calls[r] \in Call
  BY DEF IInv, Typed
<1>2. Checked(calls[r]) /\ ReadFits(calls[r], records)
  BY DEF IInv, CallsHold
<1>3. calls[r].record \in Record /\ calls[r].read \in Row \cup {None}
  BY <1>1, CallFields
<1>4. records[calls[r].record] \in Row \cup {None}
  BY <1>3 DEF IInv, Typed
<1> QED
  BY <1>1, <1>2, <1>3, <1>4 DEF Checked, ReadFits

\* A call ends and puts a row in its record that is newer than the one there and
\* that the versions fit.
LEMMA RowMoves ==
    ASSUME IInv, NEW r \in Request, NEW d \in Record, NEW row \in Row,
           calls' = [calls EXCEPT ![r] = None],
           records' = [records EXCEPT ![d] = row],
           UNCHANGED <<access, versions>>,
           VersionsFit(row, versions[d]),
           records[d] # None => records[d].version < row.version,
           \A q \in Request : q # r /\ At(q, "merge") => calls[q].record # d
    PROVE  IInv'
<1>0. UNCHANGED <<account, assigned, grants, versions>>
  BY DEF access
<1>1. /\ calls' \in [Request -> Call \cup {None}]
      /\ \A q \in Request : calls'[q] = IF q = r THEN None ELSE calls[q]
  BY OtherCalls DEF IInv
<1>2. /\ records' \in [Record -> Row \cup {None}]
      /\ \A e \in Record : records'[e] = IF e = d THEN row ELSE records[e]
  BY DEF IInv, Typed
<1>3. row # None
  BY DataVaultAssumption
<1>4. Typed'
  BY <1>0, <1>1, <1>2 DEF IInv, Typed, AccessTypes
<1>5. CallsHold'
  <2> SUFFICES ASSUME NEW q \in Request, calls'[q] # None
               PROVE  /\ SeenNow(calls[q])'
                      /\ Checked(calls'[q]) /\ ReadFits(calls'[q], records')
                      /\ Merging(calls'[q], records', versions')
    BY DEF CallsHold
  <2>1. q # r /\ calls'[q] = calls[q]
    BY <1>1
  <2> PICK c : c = calls[q]
    OBVIOUS
  <2>2. /\ SeenNow(c) /\ Checked(c) /\ ReadFits(c, records)
        /\ Merging(c, records, versions)
    BY <2>1 DEF IInv, CallsHold
  <2>3. c \in Call /\ c.record \in Record /\ c.read \in Row \cup {None}
    BY <2>1, CallFields DEF IInv, Typed
  <2>4. ReadFits(c, records')
    <3>1. CASE c.record = d /\ c.read # None
      <4>1. /\ records[d] # None /\ records[d] \in Row /\ c.read \in Row
            /\ c.read.version <= records[d].version
        BY <2>2, <2>3, <3>1 DEF ReadFits, IInv, Typed
      <4>2. c.read.version \in Nat /\ records[d].version \in Nat /\ row.version \in Nat
        BY <4>1 DEF Row
      <4> QED
        BY <1>2, <1>3, <3>1, <4>1, <4>2 DEF ReadFits
    <3>2. CASE c.record # d \/ c.read = None
      BY <1>2, <2>2, <2>3, <3>2 DEF ReadFits
    <3> QED
      BY <3>1, <3>2
  <2>5. Merging(c, records', versions)
    <3>1. c.stage = "merge" => c.record # d
      BY <2>1 DEF At
    <3> QED
      BY <1>2, <2>2, <2>3, <3>1 DEF Merging
  <2> QED
    BY <1>0, <2>1, <2>2, <2>4, <2>5 DEF SeenNow
<1>6. OneMerges'
  <2> SUFFICES ASSUME NEW p \in Request, NEW q \in Request,
                      calls'[p] # None, calls'[p].stage = "merge",
                      calls'[q] # None, calls'[q].stage = "merge",
                      calls'[p].record = calls'[q].record
               PROVE  p = q
    BY DEF OneMerges, At
  <2> QED
    BY <1>1 DEF IInv, OneMerges, At
<1>7. RecordsHold'
  BY <1>0, <1>2 DEF IInv, RecordsHold
<1> QED
  BY <1>4, <1>5, <1>6, <1>7 DEF IInv

LEMMA CreateKeeps ==
    ASSUME IInv, NEW r \in Request, Create(r)
    PROVE  IInv'
<1> PICK c : c = calls[r]
  OBVIOUS
<1> DEFINE row == [version |-> 1, content |-> c.input]
           d == c.record
<1>1. /\ c # None /\ c.stage = "write" /\ c.op = "create" /\ records[d] = None
      /\ records' = [records EXCEPT ![d] = row]
      /\ calls' = [calls EXCEPT ![r] = None]
      /\ UNCHANGED <<access, versions>>
  BY DEF Create, At, End
<1>2. d \in Record /\ c.input \in Content
  BY <1>1, ActingCall
<1>3. row \in Row /\ row.version = 1
  BY <1>2 DEF Row
<1>4. row # None
  BY <1>3, DataVaultAssumption
<1>5. VersionsFit(row, versions[d])
  <2>1. \A v \in 1 .. MaxVersion : versions[d][v] = None
    BY <1>1, <1>2 DEF IInv, RecordsHold, VersionsFit
  <2>2. MaxVersion \in Nat \ {0}
    BY DataVaultAssumption
  <2> HIDE DEF row, d
  <2> QED
    BY <1>3, <1>4, <2>1, <2>2 DEF VersionsFit
<1> HIDE DEF row
<1>6. ASSUME NEW q \in Request, At(q, "merge"), calls[q].record = d
      PROVE  FALSE
  <2>1. calls[q].op # "create"
    BY <1>6 DEF IInv, CallsHold, Merging, At
  <2>2. records[d] \in Row
    BY <1>6, <2>1, ActingCall DEF At
  <2> QED
    BY <1>1, <2>2, DataVaultAssumption
<1> QED
  BY <1>1, <1>2, <1>3, <1>5, <1>6, RowMoves

\* A call that has saved the version replaces exactly the row it read.
LEMMA WriteKeeps ==
    ASSUME IInv, NEW r \in Request, At(r, "merge"), NEW content \in Content,
           Write(r, content)
    PROVE  IInv'
<1> PICK c : c = calls[r]
  OBVIOUS
<1> DEFINE d == c.record
           old == records[d]
           row == [version |-> old.version + 1, content |-> content]
           vs == versions[d]
<1>1. /\ c # None /\ c.stage = "merge"
      /\ records' = [records EXCEPT ![d] = row]
      /\ calls' = [calls EXCEPT ![r] = None]
      /\ UNCHANGED <<access, versions>>
  BY Zenon DEF Write, At, End
<1>2. /\ c.op \in {"update", "archive"} /\ old = c.read /\ c.read.version < MaxVersion
      /\ vs[c.read.version] = c.read.content
  BY <1>1 DEF IInv, CallsHold, Merging
<1>3. d \in Record /\ old \in Row
  BY <1>1, <1>2, ActingCall
<1>4. old.version \in Nat \ {0} /\ old.content \in Content /\ old # None
  BY <1>3, DataVaultAssumption DEF Row
<1>5. row \in Row /\ row.version = old.version + 1
  BY <1>4 DEF Row
<1>6. row # None /\ old.content # None
  BY <1>4, <1>5, DataVaultAssumption
<1>7. VersionsFit(old, vs)
  BY <1>3 DEF IInv, RecordsHold
<1>8. ASSUME NEW q \in Request, q # r, At(q, "merge")
      PROVE  calls[q].record # d
  BY <1>1, <1>8 DEF IInv, OneMerges, At
<1> HIDE DEF row, d, vs, old
<1>9. VersionsFit(row, vs)
  <2>1. MaxVersion \in Nat \ {0}
    BY DataVaultAssumption
  <2>2. \A v \in 1 .. MaxVersion :
           /\ v < old.version => vs[v] # None
           /\ v = old.version => vs[v] = old.content
           /\ v > old.version => vs[v] = None
    BY <1>2, <1>4, <1>7 DEF VersionsFit
  <2>3. row.version \in 1 .. MaxVersion
    BY <1>2, <1>4, <1>5, <2>1
  <2>4. ASSUME NEW v \in 1 .. MaxVersion
        PROVE  /\ v < row.version => vs[v] # None
               /\ v = row.version => vs[v] \in {None, row.content}
               /\ v > row.version => vs[v] = None
    <3>1. /\ v < row.version => v < old.version \/ v = old.version
          /\ v >= row.version => v > old.version
      BY <1>4, <1>5, <2>1
    <3>2. v \in Nat /\ row.version \in Nat /\ (v = row.version \/ v > row.version => v >= row.version)
      BY <1>4, <1>5, <2>1
    <3> QED
      BY <1>6, <2>2, <3>1, <3>2
  <2> QED
    BY <1>6, <2>3, <2>4 DEF VersionsFit
<1>10. old.version < row.version
  BY <1>4, <1>5
<1> QED
  BY <1>1, <1>3, <1>5, <1>8, <1>9, <1>10, RowMoves DEF vs, old

LEMMA MergeContent ==
    ASSUME NEW content \in Content, NEW input \in Input
    PROVE  Merge(content, input) \in Content
<1> DEFINE e == IF input.entity # None THEN input.entity ELSE content.entity
           c == IF input.class # None THEN input.class ELSE content.class
           t == IF input.text # None THEN input.text ELSE content.text
           s == IF input.status # None THEN input.status ELSE content.status
<1>1. DOMAIN content = {"entity", "class", "text", "status"}
  BY DEF Content
<1>2. e \in Entity /\ c \in Classification /\ t \in Text /\ s \in {"live", "Archived"}
  BY DEF Content, Input
<1>3. Merge(content, input) = [entity |-> e, class |-> c, text |-> t, status |-> s]
  BY <1>1 DEF Merge
<1> HIDE DEF e, c, t, s
<1> QED
  BY <1>2, <1>3 DEF Content

LEMMA UpdateKeeps ==
    ASSUME IInv, NEW r \in Request, Update(r)
    PROVE  IInv'
<1> PICK c : c = calls[r]
  OBVIOUS
<1>1. /\ At(r, "merge") /\ c # None /\ c.stage = "merge" /\ c.merged # None
      /\ Write(r, Merge(c.merged.content, c.input))
  BY DEF Update, At
<1>2. c \in Call
  BY <1>1 DEF IInv, Typed
<1>3. c.merged.content \in Content /\ c.input \in Input
  BY <1>1, <1>2, CallFields DEF Row
<1> QED
  BY <1>1, <1>3, MergeContent, WriteKeeps

LEMMA Archived ==
    ASSUME NEW content \in Content
    PROVE  /\ [content EXCEPT !.status = "Archived"] \in Content
           /\ Target([content EXCEPT !.status = "Archived"]) = Target(content)
BY DEF Content, Target

LEMMA ArchiveKeeps ==
    ASSUME IInv, NEW r \in Request, Archive(r)
    PROVE  IInv'
<1> DEFINE old == records[calls[r].record].content
           new == [old EXCEPT !.status = "Archived"]
<1>1. At(r, "merge") /\ calls[r] # None /\ calls[r].op = "archive" /\ Write(r, new)
  BY DEF Archive, At
<1>2. records[calls[r].record] \in Row
  BY <1>1, ActingCall DEF At
<1>3. old \in Content
  BY <1>2 DEF Row
<1> HIDE DEF old
<1>4. new \in Content
  BY <1>3, Archived
<1> HIDE DEF new
<1> QED
  BY <1>1, <1>4, WriteKeeps

\* A call stays where it merges, and has read again the row it is to replace.
LEMMA ReadAgainKeeps ==
    ASSUME IInv, NEW r \in Request, ReadAgain(r)
    PROVE  IInv'
<1> PICK c : c = calls[r]
  OBVIOUS
<1> DEFINE row == records[c.record]
           k == Moved(c, c.stage, c.read, c.passed, c.tier, row, c.seen)
<1>1. /\ At(r, "merge") /\ c # None /\ c.stage = "merge" /\ c.op = "update"
      /\ calls' = [calls EXCEPT ![r] = [c EXCEPT !.merged = row]]
      /\ UNCHANGED <<access, records, versions>>
  BY Zenon DEF ReadAgain, At
<1>2. c \in Call
  BY <1>1 DEF IInv, Typed
<1>3. /\ SeenNow(c) /\ Checked(c) /\ ReadFits(c, records) /\ Merging(c, records, versions)
  BY <1>1 DEF IInv, CallsHold
<1>4. row = c.read
  BY <1>1, <1>3 DEF Merging
<1>5. calls' = [calls EXCEPT ![r] = k]
  <2>1. [c EXCEPT !.merged = row] = k
    BY <1>2, ReadTwice, Zenon
  <2> QED
    BY <1>1, <2>1, Zenon
<1>6. /\ k.op = c.op /\ k.user = c.user /\ k.record = c.record /\ k.input = c.input
      /\ k.stage = c.stage /\ k.read = c.read /\ k.passed = c.passed /\ k.tier = c.tier
      /\ k.merged = row /\ k.seen = c.seen
  BY MovedFields
<1>7. k \in Call
  BY <1>2, <1>4, CallFields, MovedCall
<1> HIDE DEF k, row
<1>8. Checks(k) = Checks(c)
  BY <1>6, SameChecks
<1>9. \A check : Entitled(c, check) => Entitled(k, check)
  BY <1>6 DEF Entitled
<1>10. Checked(k)
  <2>1. /\ k.op = "create" => k.stage # "read" /\ k.input \in Content
        /\ k.op # "create" => k.read # None
        /\ k.passed = Len(Checks(k))
    BY <1>1, <1>3, <1>6, <1>8 DEF Checked
  <2>2. \A i \in 1 .. k.passed : Entitled(k, Checks(k)[i])
    BY <1>1, <1>3, <1>6, <1>8, <1>9 DEF Checked
  <2> QED
    BY <1>1, <1>6, <2>1, <2>2 DEF Checked
<1>11. SeenNow(k) /\ ReadFits(k, records)
  BY <1>3, <1>6 DEF SeenNow, ReadFits
<1>12. Merging(k, records, versions)
  BY <1>1, <1>3, <1>4, <1>6 DEF Merging
<1> QED
  BY <1>1, <1>5, <1>6, <1>7, <1>10, <1>11, <1>12, CallMoves

\* The unique version lets through only the call that read the row as it still is.
LEMMA SavesCurrentRow ==
    ASSUME IInv, NEW r \in Request, AddVersion(r)
    PROVE  /\ calls[r].read = records[calls[r].record]
           /\ records[calls[r].record] # None
           /\ \A q \in Request : At(q, "merge") => calls[q].record # calls[r].record
<1> PICK c : c = calls[r]
  OBVIOUS
<1> DEFINE d == c.record
           row == records[d]
           vs == versions[d]
<1>1. /\ c # None /\ c.stage = "write" /\ c.op \in {"update", "archive"}
      /\ c.read.version < MaxVersion /\ vs[c.read.version] = None
  BY DEF AddVersion, At
<1>2. d \in Record /\ c.read \in Row /\ row \in Row
  BY <1>1, ActingCall
<1>3. /\ c.read.version \in Nat \ {0} /\ row.version \in Nat \ {0} /\ row # None
      /\ c.read # None
  BY <1>2, DataVaultAssumption DEF Row
<1>4. ReadFits(c, records)
  BY <1>1 DEF IInv, CallsHold
<1>5. VersionsFit(row, vs)
  BY <1>2 DEF IInv, RecordsHold
<1>6. MaxVersion \in Nat
  BY DataVaultAssumption
<1> HIDE DEF row, vs, d
<1>7. c.read.version = row.version
  <2>1. c.read.version <= row.version
    BY <1>3, <1>4 DEF ReadFits, row, d
  <2>2. c.read.version \in 1 .. MaxVersion
    BY <1>1, <1>3, <1>6
  <2>3. ~ (c.read.version < row.version)
    BY <1>1, <1>3, <1>5, <2>2 DEF VersionsFit
  <2> QED
    BY <1>3, <2>1, <2>3
<1>8. c.read = row
  BY <1>3, <1>4, <1>7 DEF ReadFits, row, d
<1>9. ASSUME NEW q \in Request, At(q, "merge"), calls[q].record = d
      PROVE  FALSE
  <2>1. Merging(calls[q], records, versions) /\ calls[q].stage = "merge" /\ calls[q] # None
    BY <1>9 DEF IInv, CallsHold, At
  <2>2. calls[q].read = row /\ vs[row.version] = row.content
    BY <1>9, <2>1 DEF Merging, row, vs
  <2>3. row.content # None
    BY <1>2, DataVaultAssumption DEF Row
  <2> QED
    BY <1>1, <1>8, <2>2, <2>3
<1> QED
  BY <1>3, <1>8, <1>9 DEF row, d

LEMMA AddVersionKeeps ==
    ASSUME IInv, NEW r \in Request, AddVersion(r)
    PROVE  IInv'
<1> PICK c : c = calls[r]
  OBVIOUS
<1> DEFINE d == c.record
           vs == [versions[d] EXCEPT ![c.read.version] = c.read.content]
           k == Moved(c, "merge", c.read, c.passed, c.tier, c.merged, c.seen)
<1>1. /\ At(r, "write") /\ c # None /\ c.stage = "write" /\ c.op \in {"update", "archive"}
      /\ c.read.version < MaxVersion
      /\ versions[d][c.read.version] = None
      /\ UNCHANGED <<access, records>>
  BY DEF AddVersion, At
<1>2. /\ versions' = [versions EXCEPT ![d] = vs]
      /\ calls' = [calls EXCEPT ![r] = [c EXCEPT !.stage = "merge"]]
  BY Zenon DEF AddVersion
<1>3. UNCHANGED <<account, assigned, grants, records>>
  BY <1>1 DEF access
<1>4. c \in Call /\ d \in Record /\ c.read \in Row
  BY <1>1, ActingCall
<1>5. /\ c.read = records[d] /\ records[d] # None
      /\ \A q \in Request : At(q, "merge") => calls[q].record # d
  BY SavesCurrentRow
<1>6. /\ c.read.version \in 1 .. MaxVersion /\ c.read.content \in Content
      /\ versions[d] \in [1 .. MaxVersion -> Content \cup {None}]
  BY <1>1, <1>4, DataVaultAssumption DEF Row, IInv, Typed
<1>7. calls' = [calls EXCEPT ![r] = k]
  <2>1. [c EXCEPT !.stage = "merge"] = k
    BY <1>4, Staged, Zenon
  <2> QED
    BY <1>2, <2>1, Zenon
<1>8. /\ k.op = c.op /\ k.user = c.user /\ k.record = c.record /\ k.input = c.input
      /\ k.stage = "merge" /\ k.read = c.read /\ k.passed = c.passed /\ k.tier = c.tier
      /\ k.merged = c.merged /\ k.seen = c.seen
  BY MovedFields
<1>9. k \in Call
  BY <1>4, CallFields, MovedCall DEF Stage
<1>10. /\ vs \in [1 .. MaxVersion -> Content \cup {None}]
       /\ vs[c.read.version] = c.read.content
       /\ \A v \in 1 .. MaxVersion : v # c.read.version => vs[v] = versions[d][v]
  BY <1>6
<1> HIDE DEF k, vs
<1>11. /\ versions' \in [Record -> [1 .. MaxVersion -> Content \cup {None}]]
       /\ versions'[d] = vs
       /\ \A e \in Record : e # d => versions'[e] = versions[e]
  BY <1>2, <1>4, <1>10 DEF IInv, Typed
<1>12. /\ calls' \in [Request -> Call \cup {None}]
       /\ \A q \in Request : calls'[q] = IF q = r THEN k ELSE calls[q]
  BY <1>7, <1>9, OtherCalls DEF IInv
<1>13. Typed'
  BY <1>3, <1>11, <1>12 DEF IInv, Typed, AccessTypes
<1>14. SeenNow(c) /\ Checked(c) /\ ReadFits(c, records)
  BY <1>1 DEF IInv, CallsHold
<1>15. Checks(k) = Checks(c)
  BY <1>8, SameChecks
<1>16. \A check : Entitled(c, check) => Entitled(k, check)
  BY <1>8 DEF Entitled
<1>17. Checked(k)
  <2>1. /\ k.op # "create" => k.read # None
        /\ k.passed = Len(Checks(k)) /\ k.op # "create"
    BY <1>1, <1>8, <1>14, <1>15 DEF Checked
  <2>2. \A i \in 1 .. k.passed : Entitled(k, Checks(k)[i])
    BY <1>1, <1>8, <1>14, <1>15, <1>16 DEF Checked
  <2> QED
    BY <1>8, <2>1, <2>2 DEF Checked
<1>18. SeenNow(k) /\ ReadFits(k, records)
  BY <1>8, <1>14 DEF SeenNow, ReadFits
<1>19. Merging(k, records, versions')
  <2>1. c.merged = None
    BY <1>1, <1>14 DEF Checked
  <2> QED
    BY <1>1, <1>5, <1>8, <1>10, <1>11, <2>1 DEF Merging
<1>20. CallsHold'
  <2> SUFFICES ASSUME NEW q \in Request, calls'[q] # None
               PROVE  /\ SeenNow(calls[q])'
                      /\ Checked(calls'[q]) /\ ReadFits(calls'[q], records')
                      /\ Merging(calls'[q], records', versions')
    BY DEF CallsHold
  <2> PICK p : p = calls'[q]
    OBVIOUS
  <2>1. SeenNow(p) /\ Checked(p) /\ ReadFits(p, records) /\ Merging(p, records, versions')
    <3>1. CASE q = r
      BY <1>12, <1>17, <1>18, <1>19, <3>1
    <3>2. CASE q # r
      <4>1. p = calls[q] /\ p # None
        BY <1>12, <3>2
      <4>2. /\ SeenNow(p) /\ Checked(p) /\ ReadFits(p, records)
            /\ Merging(p, records, versions)
        BY <4>1 DEF IInv, CallsHold
      <4>3. p.record \in Record
        BY <4>1, CallFields DEF IInv, Typed
      <4>4. p.stage = "merge" => p.record # d
        BY <1>5, <4>1 DEF At
      <4> QED
        BY <1>11, <4>2, <4>3, <4>4 DEF Merging
    <3> QED
      BY <3>1, <3>2
  <2> QED
    BY <1>3, <2>1 DEF SeenNow
<1>21. OneMerges'
  <2> SUFFICES ASSUME NEW p \in Request, NEW q \in Request,
                      calls'[p] # None, calls'[p].stage = "merge",
                      calls'[q] # None, calls'[q].stage = "merge",
                      calls'[p].record = calls'[q].record
               PROVE  p = q
    BY DEF OneMerges, At
  <2>1. \A s \in Request : s # r /\ calls'[s] # None /\ calls'[s].stage = "merge" =>
           At(s, "merge") /\ calls'[s] = calls[s] /\ calls[s].record # d
    BY <1>5, <1>12 DEF At
  <2>2. calls'[r].record = d
    BY <1>8, <1>12
  <2> QED
    BY <2>1, <2>2 DEF IInv, OneMerges
<1>22. RecordsHold'
  <2> SUFFICES ASSUME NEW e \in Record PROVE VersionsFit(records[e], versions'[e])
    BY <1>3 DEF RecordsHold
  <2>1. VersionsFit(records[e], versions[e])
    BY DEF IInv, RecordsHold
  <2>2. CASE e = d
    <3>1. \A v \in 1 .. MaxVersion :
             vs[v] = IF v = c.read.version THEN c.read.content ELSE versions[d][v]
      BY <1>10
    <3>2. VersionsFit(c.read, versions[d]) /\ c.read # None
      BY <1>5, <2>1, <2>2
    <3>3. c.read.version \in 1 .. MaxVersion /\ c.read.content # None
      BY <1>6, DataVaultAssumption
    <3>4. MaxVersion \in Nat
      BY DataVaultAssumption
    <3>5. VersionsFit(c.read, vs)
      BY <3>1, <3>2, <3>3, <3>4 DEF VersionsFit
    <3> QED
      BY <1>5, <1>11, <2>2, <3>5
  <2>3. CASE e # d
    BY <1>11, <2>1, <2>3
  <2> QED
    BY <2>2, <2>3
<1> QED
  BY <1>13, <1>20, <1>21, <1>22 DEF IInv

-----------------------------------------------------------------------------
\* A change of access

LEMMA Administered ==
    ASSUME AccessTypes, NEW u \in User, Administer(u)
    PROVE  /\ AccessTypes'
           /\ \A w \in User : w # u =>
                 account'[w] = account[w] /\ assigned'[w] = assigned[w] /\ grants'[w] = grants[w]
<1>1. CASE SetStatus(u)
  BY <1>1 DEF SetStatus, AccessTypes
<1>2. ASSUME NEW g \in Role, AssignRole(u, g) \/ RevokeRole(u, g)
      PROVE  /\ AccessTypes'
             /\ \A w \in User : w # u =>
                   account'[w] = account[w] /\ assigned'[w] = assigned[w] /\ grants'[w] = grants[w]
  BY <1>2 DEF AssignRole, RevokeRole, AccessTypes
<1>3. ASSUME NEW p \in Scope, GrantAccess(u, p) \/ RevokeAccess(u, p)
      PROVE  /\ AccessTypes'
             /\ \A w \in User : w # u =>
                   account'[w] = account[w] /\ assigned'[w] = assigned[w] /\ grants'[w] = grants[w]
  BY <1>3 DEF GrantAccess, RevokeAccess, AccessTypes
<1> QED
  BY <1>1, <1>2, <1>3 DEF Administer

\* What the calls of u are seen to have from now on.
Wider(s, u, as, ro, gr) ==
    [account |-> s.account \cup {as[u]}, roles |-> s.roles \cup ro[u],
     grants |-> s.grants \cup gr[u]]

SightedCall(c, u, as, ro, gr) ==
    IF c = None \/ c.user # u THEN c
    ELSE [c EXCEPT !.seen = Wider(@, u, as, ro, gr)]

LEMMA SightedAs ==
    ASSUME NEW c \in Call, c # None, NEW as, NEW ro, NEW gr
    PROVE  SightedCall(c, c.user, as, ro, gr)
              = Moved(c, c.stage, c.read, c.passed, c.tier, c.merged,
                      Wider(c.seen, c.user, as, ro, gr))
<1> DEFINE w == Wider(c.seen, c.user, as, ro, gr)
<1>1. SightedCall(c, c.user, as, ro, gr) = [c EXCEPT !.seen = w]
  BY Zenon DEF SightedCall
<1> HIDE DEF w
<1>2. [c EXCEPT !.seen = w] = Moved(c, c.stage, c.read, c.passed, c.tier, c.merged, w)
  BY Sighted
<1> QED
  BY <1>1, <1>2 DEF w

LEMMA WiderFields ==
    ASSUME NEW s \in Sight, NEW u, NEW as, NEW ro, NEW gr, as[u] \in {"active", "disabled"},
           ro[u] \subseteq Role, gr[u] \subseteq Scope
    PROVE  /\ Wider(s, u, as, ro, gr) \in Sight
           /\ s.account \subseteq Wider(s, u, as, ro, gr).account
           /\ s.roles \subseteq Wider(s, u, as, ro, gr).roles
           /\ s.grants \subseteq Wider(s, u, as, ro, gr).grants
           /\ as[u] \in Wider(s, u, as, ro, gr).account
           /\ ro[u] \subseteq Wider(s, u, as, ro, gr).roles
           /\ gr[u] \subseteq Wider(s, u, as, ro, gr).grants
BY DEF Wider, Sight

\* A call that has seen more of its caller has passed what it had passed.
LEMMA StillChecked ==
    ASSUME NEW c, Checked(c), NEW k,
           k.op = c.op, k.input = c.input, k.read = c.read, k.stage = c.stage,
           k.passed = c.passed, k.tier = c.tier, k.merged = c.merged,
           c.seen.account \subseteq k.seen.account, c.seen.roles \subseteq k.seen.roles,
           c.seen.grants \subseteq k.seen.grants
    PROVE  Checked(k)
<1>1. Checks(k) = Checks(c)
  BY SameChecks
<1>2. \A check : Entitled(c, check) => Entitled(k, check)
  BY EntitledGrows
<1>3. \A key, target : PermissionCovers(c.seen.roles, key, target) =>
                          PermissionCovers(k.seen.roles, key, target)
  BY DEF PermissionCovers
<1>4. /\ k.op = "create" => k.stage # "read" /\ k.input \in Content
      /\ k.stage = "read" => k.passed = 0
      /\ k.stage # "merge" => k.merged = None
      /\ k.stage # "read" /\ k.op # "create" => k.read # None
  BY DEF Checked
<1>5. k.stage # "read" => \A i \in 1 .. k.passed : Entitled(k, Checks(k)[i])
  BY <1>1, <1>2 DEF Checked
<1>6. /\ k.stage \in {"account", "roles", "grants"} => k.passed < Len(Checks(k))
      /\ k.stage \in {"write", "merge"} => k.passed = Len(Checks(k))
      /\ k.stage \in {"roles", "grants"} => "active" \in k.seen.account
  BY <1>1 DEF Checked
<1>7. k.stage = "grants" =>
         PermissionCovers(k.seen.roles, <<CheckOf(k).action, k.tier>>, CheckOf(k).target)
  BY <1>1, <1>3 DEF Checked, CheckOf
<1> QED
  BY <1>4, <1>5, <1>6, <1>7 DEF Checked

LEMMA ChangeKeeps ==
    ASSUME IInv, NEW u \in User, Change(u)
    PROVE  IInv'
<1>1. Administer(u) /\ UNCHANGED <<records, versions>>
  BY DEF Change
<1>2. /\ AccessTypes'
      /\ \A w \in User : w # u =>
            account'[w] = account[w] /\ assigned'[w] = assigned[w] /\ grants'[w] = grants[w]
  BY <1>1, Administered DEF IInv, Typed
<1>3. calls' = [q \in Request |-> SightedCall(calls[q], u, account', assigned', grants')]
  BY Zenon DEF Change, SightedCall, Wider
<1>4. \A q \in Request : calls'[q] = SightedCall(calls[q], u, account', assigned', grants')
  BY <1>3, Zenon
<1>5. ASSUME NEW q \in Request, calls[q] = None \/ calls[q].user # u
      PROVE  calls'[q] = calls[q]
  BY <1>4, <1>5, Zenon DEF SightedCall
<1>6. ASSUME NEW q \in Request, calls[q] # None, calls[q].user = u
      PROVE  /\ calls'[q] \in Call
             /\ calls'[q].stage = calls[q].stage /\ calls'[q].record = calls[q].record
             /\ SeenNow(calls[q])' /\ Checked(calls'[q])
             /\ ReadFits(calls'[q], records) /\ Merging(calls'[q], records, versions)
  <2> PICK c : c = calls[q]
    OBVIOUS
  <2> PICK k : k = calls'[q]
    OBVIOUS
  <2> PICK w : w = Wider(c.seen, u, account', assigned', grants')
    OBVIOUS
  <2>1. c \in Call /\ c # None /\ c.user = u
    BY <1>6 DEF IInv, Typed
  <2>2. k = SightedCall(c, c.user, account', assigned', grants')
    BY <1>4, <2>1
  <2>3. k = Moved(c, c.stage, c.read, c.passed, c.tier, c.merged, w)
    BY <2>1, <2>2, SightedAs
  <2>4. c.seen \in Sight
    BY <2>1, CallFields
  <2>5. /\ account'[u] \in {"active", "disabled"} /\ assigned'[u] \subseteq Role
        /\ grants'[u] \subseteq Scope
    BY <1>2 DEF AccessTypes
  <2>6. /\ w \in Sight
        /\ c.seen.account \subseteq w.account /\ c.seen.roles \subseteq w.roles
        /\ c.seen.grants \subseteq w.grants
        /\ account'[u] \in w.account /\ assigned'[u] \subseteq w.roles
        /\ grants'[u] \subseteq w.grants
    BY <2>4, <2>5, WiderFields
  <2>7. /\ k.op = c.op /\ k.user = c.user /\ k.record = c.record /\ k.input = c.input
        /\ k.stage = c.stage /\ k.read = c.read /\ k.passed = c.passed /\ k.tier = c.tier
        /\ k.merged = c.merged /\ k.seen = w
    BY <2>3, MovedFields
  <2>8. k \in Call
    <3>1. /\ c.stage \in Stage /\ c.read \in Row \cup {None} /\ c.passed \in Nat
          /\ c.tier \in Tier /\ c.merged \in Row \cup {None}
      BY <2>1, CallFields
    <3> QED
      <4>1. c \in Call /\ w \in Sight
        BY <2>1, <2>6
      <4>2. Moved(c, c.stage, c.read, c.passed, c.tier, c.merged, w) \in Call
        BY <3>1, <4>1, MovedCall
      <4> QED
        BY <2>3, <4>2
  <2>9. Checked(c) /\ ReadFits(c, records) /\ Merging(c, records, versions)
    BY <2>1 DEF IInv, CallsHold
  <2>10. Checked(k)
    BY <2>6, <2>7, <2>9, StillChecked
  <2>11. ReadFits(k, records) /\ Merging(k, records, versions)
    BY <2>7, <2>9 DEF ReadFits, Merging
  <2>12. SeenNow(calls[q])'
    BY <2>1, <2>6, <2>7 DEF SeenNow
  <2> QED
    BY <2>7, <2>8, <2>10, <2>11, <2>12
<1>7. Typed'
  <2>1. \A q \in Request : calls'[q] \in Call \cup {None}
    BY <1>5, <1>6 DEF IInv, Typed
  <2>2. calls' \in [Request -> Call \cup {None}]
    BY <1>3, <2>1
  <2> QED
    BY <1>1, <1>2, <2>2 DEF IInv, Typed
<1>8. CallsHold'
  <2> SUFFICES ASSUME NEW q \in Request, calls'[q] # None
               PROVE  /\ SeenNow(calls[q])'
                      /\ Checked(calls'[q]) /\ ReadFits(calls'[q], records')
                      /\ Merging(calls'[q], records', versions')
    BY DEF CallsHold
  <2>1. CASE calls[q] # None /\ calls[q].user = u
    BY <1>1, <1>6, <2>1
  <2>2. CASE calls[q] = None \/ calls[q].user # u
    <3>1. calls'[q] = calls[q] /\ calls[q] # None /\ calls[q].user # u
      BY <1>5, <2>2
    <3>2. calls[q].user \in User
      BY <3>1, CallFields DEF IInv, Typed
    <3>3. /\ SeenNow(calls[q]) /\ Checked(calls[q]) /\ ReadFits(calls[q], records)
          /\ Merging(calls[q], records, versions)
      BY <3>1 DEF IInv, CallsHold
    <3> QED
      BY <1>1, <1>2, <3>1, <3>2, <3>3 DEF SeenNow
  <2> QED
    BY <2>1, <2>2
<1>9. OneMerges'
  <2> SUFFICES ASSUME NEW p \in Request, NEW q \in Request,
                      calls'[p] # None, calls'[p].stage = "merge",
                      calls'[q] # None, calls'[q].stage = "merge",
                      calls'[p].record = calls'[q].record
               PROVE  p = q
    BY DEF OneMerges, At
  <2>1. \A s \in Request : calls'[s] # None /\ calls'[s].stage = "merge" =>
           At(s, "merge") /\ calls'[s].record = calls[s].record
    BY <1>5, <1>6 DEF At
  <2> QED
    BY <2>1 DEF IInv, OneMerges
<1>10. RecordsHold'
  BY <1>1 DEF IInv, RecordsHold
<1> QED
  BY <1>7, <1>8, <1>9, <1>10 DEF IInv

-----------------------------------------------------------------------------
\* Theorems

LEMMA InitHolds == Init => IInv
<1> SUFFICES ASSUME Init PROVE IInv
  OBVIOUS
<1>1. /\ AccessInit /\ records = [d \in Record |-> None]
      /\ versions = [d \in Record |-> [v \in 1 .. MaxVersion |-> None]]
      /\ calls = [r \in Request |-> None]
  BY DEF Init
<1>2. Typed
  BY <1>1 DEF Typed, AccessInit, AccessTypes
<1>3. CallsHold /\ OneMerges
  BY <1>1 DEF CallsHold, OneMerges, At
<1>4. RecordsHold
  BY <1>1 DEF RecordsHold, VersionsFit
<1> QED
  BY <1>2, <1>3, <1>4 DEF IInv

LEMMA CallStepKeeps ==
    ASSUME IInv, NEW r \in Request,
           \/ Receive(r) \/ FindRecord(r) \/ CheckPasses(r) \/ CheckFails(r) \/ Answer(r)
           \/ Create(r) \/ AddVersion(r) \/ ReadAgain(r) \/ Update(r) \/ Archive(r)
           \/ Abandon(r)
    PROVE  IInv'
<1>1. CASE Answer(r) \/ Abandon(r)
  <2>1. calls' = [calls EXCEPT ![r] = None] /\ UNCHANGED <<access, records, versions>>
    BY <1>1 DEF Answer, Abandon, End
  <2> QED
    BY <2>1, CallEnds
<1>2. CASE Receive(r) \/ FindRecord(r) \/ CheckPasses(r) \/ CheckFails(r)
  BY <1>2, ReceiveKeeps, FindRecordKeeps, CheckPassesKeeps, CheckFailsKeeps
<1>3. CASE Create(r) \/ AddVersion(r) \/ ReadAgain(r) \/ Update(r) \/ Archive(r)
  BY <1>3, CreateKeeps, AddVersionKeeps, ReadAgainKeeps, UpdateKeeps, ArchiveKeeps
<1> QED
  BY <1>1, <1>2, <1>3

LEMMA NextKeeps == IInv /\ [Next]_vars => IInv'
<1> SUFFICES ASSUME IInv, [Next]_vars PROVE IInv'
  OBVIOUS
<1>1. CASE UNCHANGED vars
  <2>1. UNCHANGED <<account, assigned, grants, records, versions, calls>>
    BY <1>1 DEF vars
  <2> QED
    BY <2>1 DEF IInv, Typed, AccessTypes, CallsHold, OneMerges, RecordsHold, SeenNow, At
<1>2. ASSUME NEW u \in User, Change(u) PROVE IInv'
  BY <1>2, ChangeKeeps
<1> QED
  BY <1>1, <1>2, CallStepKeeps, Zenon DEF Next

\* However requests interleave, rights change and processes stop, the invariant of
\* this module holds: only the call that read the row as it still is saves a
\* version, and it alone replaces that row.
THEOREM DataVaultInvariant == Spec => []IInv
BY InitHolds, NextKeeps, PTL DEF Spec

\* Tables and calls keep their shape, and a call about to change a record has
\* saved the version it read.
THEOREM DataVaultTypes == Spec => []TypeOK
<1>1. IInv => TypeOK
  <2> SUFFICES ASSUME IInv, NEW r \in Request, At(r, "merge")
               PROVE  versions[calls[r].record][calls[r].read.version] # None
    BY DEF TypeOK, IInv, Typed
  <2>1. /\ calls[r] # None /\ calls[r].stage = "merge" /\ calls[r].op \in {"update", "archive"}
        /\ versions[calls[r].record][calls[r].read.version] = calls[r].read.content
    BY DEF At, IInv, CallsHold, Merging
  <2>2. calls[r].read \in Row
    BY <2>1, ActingCall
  <2> QED
    BY <2>1, <2>2, DataVaultAssumption DEF Row
<1> QED
  BY <1>1, DataVaultInvariant, PTL

-----------------------------------------------------------------------------
\* Callers are entitled

LEMMA ActsEntitled ==
    ASSUME IInv, NEW r \in Request, NEW c, c = calls[r], c # None,
           c.stage \in {"write", "merge"}
    PROVE  /\ c.op = "get" => Entitled(c, Check("read", c.read.content))
           /\ c.op = "create" => Entitled(c, Check("create", c.input))
           /\ c.op = "archive" =>
                 /\ Entitled(c, Check("read", c.read.content))
                 /\ Entitled(c, Check("archive", c.read.content))
           /\ c.op = "update" =>
                 LET new == Check("update", Merge(c.read.content, c.input)) IN
                 /\ Entitled(c, Check("read", c.read.content))
                 /\ Entitled(c, Check("update", c.read.content))
                 /\ new.target # Target(c.read.content) => Entitled(c, new)
<1>1. \A i \in 1 .. Len(Checks(c)) : Entitled(c, Checks(c)[i])
  BY DEF IInv, CallsHold, Checked
<1>2. ASSUME NEW a, Checks(c) = <<a>> PROVE Entitled(c, a)
  BY <1>1, <1>2
<1>3. ASSUME NEW a, NEW b, Checks(c) = <<a, b>> PROVE Entitled(c, a) /\ Entitled(c, b)
  <2>1. Len(<<a, b>>) = 2 /\ <<a, b>>[1] = a /\ <<a, b>>[2] = b
    OBVIOUS
  <2> QED
    BY <1>1, <1>3, <2>1
<1>4. ASSUME NEW a, NEW b, NEW n, Checks(c) = <<a, b, n>>
      PROVE  Entitled(c, a) /\ Entitled(c, b) /\ Entitled(c, n)
  <2>1. Len(<<a, b, n>>) = 3 /\ <<a, b, n>>[1] = a /\ <<a, b, n>>[2] = b /\ <<a, b, n>>[3] = n
    OBVIOUS
  <2> QED
    BY <1>1, <1>4, <2>1
<1>5. CASE c.op = "update"
  <2> DEFINE a == Check("read", c.read.content)
             b == Check("update", c.read.content)
             new == Check("update", Merge(c.read.content, c.input))
  <2>1. Checks(c) = IF new.target = Target(c.read.content) THEN <<a, b>> ELSE <<a, b, new>>
    BY <1>5, ChecksOf
  <2> HIDE DEF a, b, new
  <2>2. /\ Entitled(c, a) /\ Entitled(c, b)
        /\ new.target # Target(c.read.content) => Entitled(c, new)
    BY <1>3, <1>4, <2>1
  <2> QED
    BY <1>5, <2>2 DEF a, b, new
<1>6. CASE c.op # "update"
  BY <1>2, <1>3, <1>6, ChecksOf
<1> QED
  BY <1>5, <1>6

LEMMA RecordsChange ==
    ASSUME [Next]_vars
    PROVE  \/ records' = records
           \/ \E r \in Request : Create(r) \/ Update(r) \/ Archive(r)
<1>1. CASE UNCHANGED vars
  BY <1>1 DEF vars
<1>2. ASSUME NEW u \in User, Change(u) PROVE records' = records
  BY <1>2 DEF Change
<1>3. ASSUME NEW r \in Request,
             \/ FindRecord(r) \/ CheckPasses(r) \/ CheckFails(r) \/ Answer(r)
             \/ AddVersion(r) \/ ReadAgain(r) \/ Abandon(r)
      PROVE  records' = records
  BY <1>3, Zenon DEF FindRecord, CheckPasses, CheckFails, Answer, AddVersion, ReadAgain, Abandon
<1>4. ASSUME NEW r \in Request, Receive(r) PROVE records' = records
  <2>1. ASSUME NEW u, NEW op, NEW d, NEW i, Open(r, u, op, d, i) PROVE records' = records
    BY <2>1 DEF Open
  <2> QED
    BY <1>4, <2>1, Zenon DEF Receive
<1> QED
  BY <1>1, <1>2, <1>3, <1>4, Zenon DEF Next

\* What a call that puts a row in its record has been entitled to.
LEMMA RowEntitled ==
    ASSUME IInv, NEW r \in Request, NEW c, c = calls[r], NEW row \in Row, NEW d, d = c.record,
           records' = [records EXCEPT ![d] = row],
           calls' = [calls EXCEPT ![r] = None],
           c # None, d \in Record,
           c.stage \in {"write", "merge"}, c.op # "get",
           IF records[d] = None THEN Entitled(c, Check(c.op, row.content))
           ELSE /\ Entitled(c, Check("read", records[d].content))
                /\ Entitled(c, Check(c.op, records[d].content))
                /\ Check(c.op, row.content) # Check(c.op, records[d].content)
                      => Entitled(c, Check(c.op, row.content))
    PROVE  \A q \in Request : EndsEntitled(q)
<1>1. \A q \in Request : calls'[q] = IF q = r THEN None ELSE calls[q]
  BY OtherCalls DEF IInv
<1>2. \A e \in Record : records'[e] = IF e = d THEN row ELSE records[e]
  BY DEF IInv, Typed
<1>3. ASSUME NEW q \in Request, q # r PROVE EndsEntitled(q)
  BY <1>1, <1>3 DEF EndsEntitled
<1>4. EndsEntitled(r)
  BY <1>2 DEF EndsEntitled
<1> QED
  BY <1>3, <1>4

LEMMA StepEntitled == IInv /\ [Next]_vars => \A r \in Request : EndsEntitled(r)
<1> SUFFICES ASSUME IInv, [Next]_vars PROVE \A r \in Request : EndsEntitled(r)
  OBVIOUS
<1>1. CASE records' = records
  <2> SUFFICES ASSUME NEW r \in Request PROVE EndsEntitled(r)
    OBVIOUS
  <2>1. calls[r] # None /\ calls[r].op = "get" /\ calls[r].stage = "write" =>
           Entitled(calls[r], Check("read", calls[r].read.content))
    BY ActsEntitled
  <2> QED
    BY <1>1, <2>1, Zenon DEF EndsEntitled
<1>2. ASSUME NEW r \in Request, Create(r) PROVE \A q \in Request : EndsEntitled(q)
  <2> PICK c : c = calls[r]
    OBVIOUS
  <2> PICK row : row = [version |-> 1, content |-> c.input]
    OBVIOUS
  <2>1. /\ c # None /\ c.stage = "write" /\ c.op = "create" /\ records[c.record] = None
        /\ records' = [records EXCEPT ![c.record] = row]
        /\ calls' = [calls EXCEPT ![r] = None]
    BY <1>2 DEF Create, At, End
  <2>2. c.record \in Record /\ c.input \in Content
    BY <2>1, ActingCall
  <2>3. row \in Row /\ row.content = c.input
    BY <2>2 DEF Row
  <2>4. Entitled(c, Check("create", c.input))
    BY <2>1, ActsEntitled
  <2> QED
    BY <2>1, <2>2, <2>3, <2>4, RowEntitled
<1>3. ASSUME NEW r \in Request, At(r, "merge"), NEW content \in Content, Write(r, content),
             LET c == calls[r] IN
             /\ c.op = "update" => content = Merge(c.read.content, c.input)
             /\ c.op = "archive" => Target(content) = Target(c.read.content)
      PROVE  \A q \in Request : EndsEntitled(q)
  <2> PICK c : c = calls[r]
    OBVIOUS
  <2> PICK old : old = records[c.record]
    OBVIOUS
  <2> PICK row : row = [version |-> old.version + 1, content |-> content]
    OBVIOUS
  <2>1. /\ c # None /\ c.stage = "merge"
        /\ records' = [records EXCEPT ![c.record] = row]
        /\ calls' = [calls EXCEPT ![r] = None]
    BY <1>3, Zenon DEF Write, At, End
  <2>2. c.op \in {"update", "archive"} /\ old = c.read
    BY <2>1 DEF IInv, CallsHold, Merging
  <2>3. c.record \in Record /\ old \in Row
    BY <2>1, <2>2, ActingCall
  <2>4. row \in Row /\ row.content = content /\ old # None
    BY <1>3, <2>3, DataVaultAssumption DEF Row
  <2>5. /\ Entitled(c, Check("read", old.content))
        /\ Entitled(c, Check(c.op, old.content))
    BY <2>1, <2>2, ActsEntitled
  <2>6. Check(c.op, content) # Check(c.op, old.content) => Entitled(c, Check(c.op, content))
    <3>1. CASE c.op = "archive"
      BY <1>3, <2>2, <3>1 DEF Check
    <3>2. CASE c.op = "update"
      <4>1. content = Merge(old.content, c.input)
        BY <1>3, <2>2, <3>2
      <4>2. /\ Check("update", content).target = Target(content)
            /\ Check("update", content) # Check("update", old.content) =>
                  Target(content) # Target(old.content)
        BY DEF Check
      <4>3. Check("update", content).target # Target(old.content) =>
               Entitled(c, Check("update", content))
        BY <2>1, <2>2, <3>2, <4>1, ActsEntitled
      <4> QED
        BY <3>2, <4>2, <4>3
    <3> QED
      BY <2>2, <3>1, <3>2
  <2> QED
    BY <2>1, <2>2, <2>3, <2>4, <2>5, <2>6, RowEntitled
<1>4. ASSUME NEW r \in Request, Update(r) PROVE \A q \in Request : EndsEntitled(q)
  <2> PICK c : c = calls[r]
    OBVIOUS
  <2>1. /\ At(r, "merge") /\ c # None /\ c.stage = "merge" /\ c.op = "update"
        /\ c.merged # None /\ Write(r, Merge(c.merged.content, c.input))
    <3>1. /\ At(r, "merge") /\ c # None /\ c.stage = "merge"
          /\ c.merged # None /\ Write(r, Merge(c.merged.content, c.input))
      BY <1>4 DEF Update, At
    <3>2. c.op = "update"
      BY <3>1 DEF IInv, CallsHold, Merging
    <3> QED
      BY <3>1, <3>2
  <2>2. c \in Call /\ c.merged = c.read
    BY <2>1 DEF IInv, Typed, CallsHold, Merging
  <2>3. Merge(c.merged.content, c.input) \in Content
    <3>1. c.merged.content \in Content /\ c.input \in Input
      BY <2>1, <2>2, CallFields DEF Row
    <3> QED
      BY <3>1, MergeContent
  <2> QED
    BY <1>3, <2>1, <2>2, <2>3
<1>5. ASSUME NEW r \in Request, Archive(r) PROVE \A q \in Request : EndsEntitled(q)
  <2> PICK c : c = calls[r]
    OBVIOUS
  <2> PICK old : old = records[c.record].content
    OBVIOUS
  <2> PICK new : new = [old EXCEPT !.status = "Archived"]
    OBVIOUS
  <2>1. At(r, "merge") /\ c # None /\ c.stage = "merge" /\ c.op = "archive" /\ Write(r, new)
    BY <1>5 DEF Archive, At
  <2>2. records[c.record] = c.read /\ records[c.record] \in Row
    BY <2>1, ActingCall DEF IInv, CallsHold, Merging
  <2>3. old \in Content /\ old = c.read.content
    BY <2>2 DEF Row
  <2>4. new \in Content /\ Target(new) = Target(old)
    BY <2>3, Archived
  <2> QED
    BY <1>3, <2>1, <2>3, <2>4
<1> QED
  BY <1>1, <1>2, <1>4, <1>5, RecordsChange

\* Whoever changes a record was entitled to it as it stands when it is changed and
\* as it becomes, and whoever is shown one was entitled to see it, although rights
\* and records change between the reads of the check and the write.
THEOREM CallersEntitledHolds == Spec => CallersEntitled
<1>1. IInv /\ [Next]_vars => [\A r \in Request : EndsEntitled(r)]_vars
  BY StepEntitled
<1> QED
  BY <1>1, DataVaultInvariant, PTL DEF Spec, CallersEntitled

-----------------------------------------------------------------------------
\* The histories of VersionedRecord

HistoryOf(row, vs) ==
    IF row = None THEN <<>>
    ELSE [v \in 1 .. row.version |-> IF v = row.version THEN row.content ELSE vs[v]]

Saved == [1 .. MaxVersion -> Content \cup {None}]

LEMMA HistoryFields ==
    ASSUME NEW row \in Row, NEW vs \in Saved, VersionsFit(row, vs)
    PROVE  /\ HistoryOf(row, vs) \in Seq(Content)
           /\ Len(HistoryOf(row, vs)) = row.version
           /\ \A v \in 1 .. row.version :
                 HistoryOf(row, vs)[v] = IF v = row.version THEN row.content ELSE vs[v]
<1> DEFINE n == row.version
           h == HistoryOf(row, vs)
<1>1. n \in Nat /\ row.content \in Content /\ row # None
  BY DataVaultAssumption DEF Row
<1>2. h = [v \in 1 .. n |-> IF v = n THEN row.content ELSE vs[v]]
  BY <1>1 DEF HistoryOf
<1>3. MaxVersion \in Nat /\ n \in 1 .. MaxVersion
  BY <1>1, DataVaultAssumption DEF VersionsFit
<1>4. ASSUME NEW v \in 1 .. n PROVE (IF v = n THEN row.content ELSE vs[v]) \in Content
  <2>1. v \in 1 .. MaxVersion /\ (v < n \/ v = n)
    BY <1>1, <1>3
  <2>2. v < n => vs[v] # None
    BY <1>1, <2>1 DEF VersionsFit
  <2>3. vs[v] \in Content \cup {None}
    BY <2>1 DEF Saved
  <2> HIDE DEF n
  <2> QED
    BY <1>1, <2>1, <2>2, <2>3
<1> HIDE DEF n, h
<1>5. h \in [1 .. n -> Content]
  BY <1>2, <1>4
<1>6. h \in Seq(Content)
  BY <1>1, <1>5, SeqDef
<1>7. Len(h) = n
  <2> PICK k : k = Len(h)
    OBVIOUS
  <2>1. k \in Nat /\ 1 .. k = 1 .. n
    BY <1>5, <1>6, LenProperties
  <2> QED
    BY <1>1, <2>1
<1>8. \A v \in 1 .. n : h[v] = IF v = n THEN row.content ELSE vs[v]
  BY <1>2
<1> QED
  BY <1>6, <1>7, <1>8 DEF h, n

\* A row that replaces one whose version has been saved lengthens its history.
LEMMA HistoryLengthens ==
    ASSUME NEW old \in Row, NEW row \in Row, NEW vs \in Saved,
           VersionsFit(old, vs), VersionsFit(row, vs),
           row.version = old.version + 1, vs[old.version] = old.content
    PROVE  HistoryOf(row, vs) = Append(HistoryOf(old, vs), row.content)
<1> DEFINE h == HistoryOf(old, vs)
           g == HistoryOf(row, vs)
           n == old.version
<1>1. n \in Nat /\ row.content \in Content /\ row.version = n + 1
  BY DEF Row
<1>2. /\ h \in Seq(Content) /\ Len(h) = n
      /\ \A v \in 1 .. n : h[v] = IF v = n THEN old.content ELSE vs[v]
  BY HistoryFields
<1>3. /\ g \in Seq(Content) /\ Len(g) = n + 1
      /\ \A v \in 1 .. n + 1 : g[v] = IF v = n + 1 THEN row.content ELSE vs[v]
  BY <1>1, HistoryFields
<1> DEFINE a == Append(h, row.content)
<1> HIDE DEF h, g, n
<1>4. /\ a \in Seq(Content) /\ Len(a) = n + 1
      /\ \A v \in 1 .. n : a[v] = h[v]
      /\ a[n + 1] = row.content
  BY <1>1, <1>2, AppendProperties
<1>5. ASSUME NEW v \in 1 .. n + 1 PROVE g[v] = a[v]
  <2>1. v = n + 1 \/ (v \in 1 .. n /\ v # n + 1)
    BY <1>1
  <2>2. CASE v = n + 1
    BY <1>3, <1>4, <2>2
  <2>3. CASE v \in 1 .. n /\ v # n + 1
    <3>1. g[v] = vs[v] /\ a[v] = h[v]
      BY <1>3, <1>4, <2>3
    <3>2. h[v] = vs[v]
      BY <1>2, <2>3 DEF n
    <3> QED
      BY <3>1, <3>2
  <2> QED
    BY <2>1, <2>2, <2>3
<1> HIDE DEF a
<1>6. g = a
  BY <1>3, <1>4, <1>5, SeqEqual
<1> QED
  BY <1>6 DEF g, a, h

LEMMA HistoryBegins ==
    ASSUME NEW row \in Row, NEW vs \in Saved, VersionsFit(row, vs), row.version = 1
    PROVE  HistoryOf(row, vs) = Append(HistoryOf(None, vs), row.content)
<1> DEFINE g == HistoryOf(row, vs)
           a == Append(<<>>, row.content)
<1>1. HistoryOf(None, vs) = <<>> /\ row.content \in Content
  BY DEF HistoryOf, Row
<1>2. g \in Seq(Content) /\ Len(g) = 1 /\ g[1] = row.content
  <2>1. /\ g \in Seq(Content) /\ Len(g) = row.version
        /\ \A v \in 1 .. row.version : g[v] = IF v = row.version THEN row.content ELSE vs[v]
    BY HistoryFields
  <2> HIDE DEF g
  <2> QED
    BY <2>1
<1>3. a \in Seq(Content) /\ Len(a) = 1 /\ a[1] = row.content
  BY <1>1, EmptySeq, AppendProperties
<1> HIDE DEF g, a
<1>4. \A v \in 1 .. 1 : g[v] = a[v]
  BY <1>2, <1>3
<1>5. g = a
  BY <1>2, <1>3, <1>4, SeqEqual
<1> QED
  BY <1>1, <1>5 DEF g, a

\* The version of the row is in its history before it is saved.
LEMMA HistoryStays ==
    ASSUME NEW row \in Row, NEW vs, NEW ws,
           \A v \in 1 .. row.version : v # row.version => ws[v] = vs[v]
    PROVE  HistoryOf(row, ws) = HistoryOf(row, vs)
BY DEF HistoryOf

\* A record's history gets one content more.
LEMMA Extends ==
    ASSUME NEW d \in Record, NEW content \in Content,
           HistoryOf(records'[d], versions'[d])
              = Append(HistoryOf(records[d], versions[d]), content),
           HistoryOf(records[d], versions[d]) \in Seq(Content),
           \A e \in Record : e # d =>
              HistoryOf(records'[e], versions'[e]) = HistoryOf(records[e], versions[e])
    PROVE  Versioned!HNext
<1> DEFINE f == [e \in Record |-> HistoryOf(records[e], versions[e])]
           g == [e \in Record |-> HistoryOf(records'[e], versions'[e])]
<1>1. g = [f EXCEPT ![d] = Append(f[d], content)]
  OBVIOUS
<1>2. g[d] = Append(f[d], content) /\ f[d] \in Seq(Content)
  OBVIOUS
<1> HIDE DEF f, g
<1>3. Len(g[d]) = Len(f[d]) + 1
  BY <1>2, AppendProperties
<1>4. f = [e \in Record |-> History(e)]
  BY DEF f, HistoryOf, History
<1>5. g = [e \in Record |-> History(e)']
  BY DEF g, HistoryOf, History
<1>6. Versioned!Extend(d)
  BY <1>1, <1>3, <1>4, <1>5, Zenon DEF Versioned!Extend
<1> QED
  BY <1>6 DEF Versioned!HNext

LEMMA Stutters ==
    ASSUME \A e \in Record :
              HistoryOf(records'[e], versions'[e]) = HistoryOf(records[e], versions[e])
    PROVE  UNCHANGED [d \in Record |-> History(d)]
BY DEF HistoryOf, History

\* A step that puts a row in a record is one of Extend.
LEMMA RowExtends ==
    ASSUME IInv, IInv', NEW d \in Record, NEW row \in Row,
           records' = [records EXCEPT ![d] = row], versions' = versions,
           \/ records[d] = None /\ row.version = 1
           \/ /\ records[d] # None /\ row.version = records[d].version + 1
              /\ versions[d][records[d].version] = records[d].content
    PROVE  Versioned!HNext
<1> PICK old : old = records[d]
  OBVIOUS
<1> PICK vs : vs = versions[d]
  OBVIOUS
<1>1. \A e \in Record : records'[e] = IF e = d THEN row ELSE records[e]
  BY DEF IInv, Typed
<1>2. old \in Row \cup {None} /\ vs \in Saved
  BY DEF IInv, Typed, Saved
<1>3. VersionsFit(old, vs)
  BY DEF IInv, RecordsHold
<1>4. VersionsFit(row, vs)
  BY <1>1 DEF IInv, RecordsHold
<1>5. HistoryOf(row, vs) = Append(HistoryOf(old, vs), row.content)
        /\ HistoryOf(old, vs) \in Seq(Content)
  <2>1. CASE old = None
    <3>1. HistoryOf(old, vs) = <<>>
      BY <2>1 DEF HistoryOf
    <3>2. HistoryOf(row, vs) = Append(HistoryOf(None, vs), row.content)
      BY <1>2, <1>4, <2>1, HistoryBegins
    <3> QED
      BY <2>1, <3>1, <3>2, EmptySeq
  <2>2. CASE old # None
    <3>1. old \in Row /\ row.version = old.version + 1 /\ vs[old.version] = old.content
      BY <1>2, <2>2
    <3>2. HistoryOf(old, vs) \in Seq(Content)
      BY <1>2, <1>3, <3>1, HistoryFields
    <3>3. HistoryOf(row, vs) = Append(HistoryOf(old, vs), row.content)
      BY <1>2, <1>3, <1>4, <3>1, HistoryLengthens
    <3> QED
      BY <3>2, <3>3
  <2> QED
    BY <2>1, <2>2
<1>6. row.content \in Content
  BY DEF Row
<1> QED
  BY <1>1, <1>5, <1>6, Extends

LEMMA StepRefines ==
    IInv /\ IInv' /\ [Next]_vars =>
       Versioned!HNext \/ UNCHANGED [d \in Record |-> History(d)]
<1> SUFFICES ASSUME IInv, IInv', [Next]_vars
             PROVE  Versioned!HNext \/ UNCHANGED [d \in Record |-> History(d)]
  OBVIOUS
<1>1. CASE UNCHANGED <<records, versions>>
  BY <1>1, Stutters
<1>2. ASSUME NEW r \in Request, Create(r) PROVE Versioned!HNext
  <2> PICK c : c = calls[r]
    OBVIOUS
  <2> PICK row : row = [version |-> 1, content |-> c.input]
    OBVIOUS
  <2>1. /\ c # None /\ c.stage = "write" /\ c.op = "create" /\ records[c.record] = None
        /\ records' = [records EXCEPT ![c.record] = row] /\ versions' = versions
    BY <1>2 DEF Create, At
  <2>2. c.record \in Record /\ c.input \in Content
    BY <2>1, ActingCall
  <2>3. row \in Row /\ row.version = 1
    BY <2>2 DEF Row
  <2> QED
    BY <2>1, <2>2, <2>3, RowExtends
<1>3. ASSUME NEW r \in Request, At(r, "merge"), NEW content \in Content, Write(r, content)
      PROVE  Versioned!HNext
  <2> PICK c : c = calls[r]
    OBVIOUS
  <2> PICK old : old = records[c.record]
    OBVIOUS
  <2> PICK row : row = [version |-> old.version + 1, content |-> content]
    OBVIOUS
  <2>1. /\ c # None /\ c.stage = "merge"
        /\ records' = [records EXCEPT ![c.record] = row] /\ versions' = versions
    BY <1>3, Zenon DEF Write, At
  <2>2. /\ c.op \in {"update", "archive"} /\ old = c.read
        /\ versions[c.record][old.version] = old.content
    BY <2>1 DEF IInv, CallsHold, Merging
  <2>3. c.record \in Record /\ old \in Row
    BY <2>1, <2>2, ActingCall
  <2>4. row \in Row /\ row.version = old.version + 1 /\ old # None
    BY <1>3, <2>3, DataVaultAssumption DEF Row
  <2> QED
    BY <2>1, <2>2, <2>3, <2>4, RowExtends
<1>4. ASSUME NEW r \in Request, Update(r) PROVE Versioned!HNext
  <2> PICK c : c = calls[r]
    OBVIOUS
  <2>1. /\ At(r, "merge") /\ c # None /\ c.stage = "merge" /\ c.merged # None
        /\ Write(r, Merge(c.merged.content, c.input))
    BY <1>4 DEF Update, At
  <2>2. c \in Call
    BY <2>1 DEF IInv, Typed
  <2>3. c.merged.content \in Content /\ c.input \in Input
    BY <2>1, <2>2, CallFields DEF Row
  <2> QED
    BY <1>3, <2>1, <2>3, MergeContent
<1>5. ASSUME NEW r \in Request, Archive(r) PROVE Versioned!HNext
  <2> PICK c : c = calls[r]
    OBVIOUS
  <2> PICK old : old = records[c.record].content
    OBVIOUS
  <2> PICK new : new = [old EXCEPT !.status = "Archived"]
    OBVIOUS
  <2>1. At(r, "merge") /\ c # None /\ c.stage = "merge" /\ c.op = "archive" /\ Write(r, new)
    BY <1>5 DEF Archive, At
  <2>2. records[c.record] \in Row
    BY <2>1, ActingCall
  <2>3. old \in Content
    BY <2>2 DEF Row
  <2>4. new \in Content
    BY <2>3, Archived
  <2> QED
    BY <1>3, <2>1, <2>4
<1>6. ASSUME NEW r \in Request, AddVersion(r)
      PROVE  UNCHANGED [d \in Record |-> History(d)]
  <2> PICK c : c = calls[r]
    OBVIOUS
  <2> PICK d : d = c.record
    OBVIOUS
  <2>1. /\ c # None /\ c.stage = "write" /\ c.op \in {"update", "archive"} /\ records' = records
        /\ versions' = [versions EXCEPT ![d] = [versions[d] EXCEPT ![c.read.version]
                                                                    = c.read.content]]
    BY <1>6, Zenon DEF AddVersion, At
  <2>2. d \in Record
    BY <2>1, ActingCall
  <2>3. c.read = records[d]
    BY <1>6, SavesCurrentRow
  <2>4. /\ \A e \in Record : e # d => versions'[e] = versions[e]
        /\ \A v \in 1 .. MaxVersion : v # c.read.version => versions'[d][v] = versions[d][v]
    BY <2>1, <2>2 DEF IInv, Typed
  <2>5. 1 .. records[d].version \subseteq 1 .. MaxVersion
    <3>1. records[d] # None
      BY <1>6, SavesCurrentRow
    <3>2. records[d].version \in 1 .. MaxVersion
      BY <2>2, <3>1 DEF IInv, RecordsHold, VersionsFit
    <3>3. MaxVersion \in Nat
      BY DataVaultAssumption
    <3> QED
      BY <3>2, <3>3
  <2>6. records[d] \in Row
    <3>1. records[d] # None
      BY <1>6, SavesCurrentRow
    <3> QED
      BY <2>2, <3>1 DEF IInv, Typed
  <2>7. HistoryOf(records[d], versions'[d]) = HistoryOf(records[d], versions[d])
    BY <2>3, <2>4, <2>5, <2>6, HistoryStays
  <2> QED
    BY <2>1, <2>2, <2>4, <2>7, Stutters
<1>7. ASSUME NEW r \in Request,
             \/ FindRecord(r) \/ CheckPasses(r) \/ CheckFails(r) \/ Answer(r)
             \/ ReadAgain(r) \/ Abandon(r)
      PROVE  UNCHANGED <<records, versions>>
  BY <1>7, Zenon DEF FindRecord, CheckPasses, CheckFails, Answer, ReadAgain, Abandon
<1>8. ASSUME NEW r \in Request, Receive(r) PROVE UNCHANGED <<records, versions>>
  <2>1. ASSUME NEW u, NEW op, NEW d, NEW i, Open(r, u, op, d, i)
        PROVE  UNCHANGED <<records, versions>>
    BY <2>1 DEF Open
  <2> QED
    BY <1>8, <2>1, Zenon DEF Receive
<1>9. ASSUME NEW u \in User, Change(u) PROVE UNCHANGED <<records, versions>>
  BY <1>9 DEF Change
<1>10. CASE UNCHANGED vars
  <2>1. UNCHANGED <<records, versions>>
    BY <1>10 DEF vars
  <2> QED
    BY <1>1, <2>1
<1> QED
  BY <1>1, <1>2, <1>4, <1>5, <1>6, <1>7, <1>8, <1>9, <1>10, Zenon DEF Next

LEMMA HistoryInit == Init => Versioned!HInit
BY DEF Init, Versioned!HInit, History

\* Although a version is saved and a row replaced in separate statements, by
\* requests that read the row before others changed it, a record and its versions
\* implement VersionedRecord: one history that grows by one content at a time.
THEOREM HistoryKeptHolds == Spec => HistoryKept
BY HistoryInit, StepRefines, DataVaultInvariant, PTL
   DEF Spec, HistoryKept, Versioned!HSpec
=============================================================================
