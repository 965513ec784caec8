------------------------------- MODULE ChainAudit -------------------------------
(***************************************************************************)
(* What the ledger's own checks can say of a contract's chain: the chain   *)
(* verification and the Merkle root (packages/ledger-client/src/index.ts)  *)
(* and the anchor that seals the rows written before V009                  *)
(* (packages/ledger-client/src/legacy-anchor.ts).  Rows are appended, the  *)
(* migration runs, the legacy rows are sealed, the root is stored, and a   *)
(* row of the table is then changed by a statement that is none of these.  *)
(* Hashes are free, as in Merkle: a hash is the term it is computed from.  *)
(***************************************************************************)
EXTENDS Merkle, Canonical

CONSTANTS
  Payloads,     \* JSON values that callers try to append
  MaxLegacy,    \* bound: rows written before V009
  MaxRows,      \* bound: rows in the chain
  MaxChanges    \* bound: changes made behind the ledger's back

ASSUME AuditAssumption ==
  /\ {MaxLegacy, MaxRows, MaxChanges} \subseteq Nat
  /\ MaxNesting \in Nat /\ MaxNesting >= 2   \* an anchor is an object with arrays
  /\ \A x \in Payloads : IsJson(x)

VARIABLES
  rows,      \* merkle_ledger for one contract, by ledger_id
  truth,     \* the rows as the ledger wrote them
  migrated,  \* V009 has run
  anchor,    \* the payload of the sealing entry
  stored,    \* the stored root, and the number of leaves under it
  changes

audit == <<rows, truth, migrated, anchor, stored, changes>>

Genesis == <<"GENESIS">>

\* A null column, an anchor or a root that does not exist.
Absent == <<>>

\* Before V009 the database hashed a text of its own; since then chainHash.
OldHash(payload, prev)   == <<"v1", payload, prev>>
ChainHash(text, prev)    == <<"v2", text, prev>>

CurrentVersion == 2

AuditInit ==
  /\ rows = <<>> /\ truth = <<>>
  /\ migrated = FALSE
  /\ anchor = Absent /\ stored = Absent
  /\ changes = 0

TailHash(r) == IF r = <<>> THEN Genesis ELSE Last(r).hash

\* The row append_ledger inserts for a payload; its jsonb column re-orders members.
NewRow(x) ==
  [id |-> Len(rows) + 1, version |-> CurrentVersion, payload |-> Jsonb(x),
   text |-> Canonicalize(x), prev |-> TailHash(rows),
   hash |-> ChainHash(Canonicalize(x), TailHash(rows))]

OldRow(x) ==
  [id |-> Len(rows) + 1, version |-> 1, payload |-> Jsonb(x), text |-> Absent,
   prev |-> TailHash(rows), hash |-> OldHash(Jsonb(x), TailHash(rows))]

\* The ledger adds a row.  Ids are those of an unchanged table: a change comes last.
Adds(row) == rows' = Append(rows, row) /\ truth' = Append(truth, row)

AppendLegacy ==
  /\ ~migrated /\ Len(rows) < MaxLegacy
  /\ \E x \in Payloads : Canonicalizable(x) /\ Adds(OldRow(x))
  /\ UNCHANGED <<migrated, anchor, stored, changes>>

Migrate ==
  /\ ~migrated
  /\ migrated' = TRUE
  /\ UNCHANGED <<rows, truth, anchor, stored, changes>>

\* append: a payload without a canonical form throws before anything is sent.
AppendEntry ==
  /\ migrated /\ changes = 0 /\ Len(rows) < MaxRows
  /\ \E x \in Payloads : Canonicalizable(x) /\ Adds(NewRow(x))
  /\ UNCHANGED <<migrated, anchor, stored, changes>>

(***************************************************************************)
(* Sealing.                                                                *)
(***************************************************************************)

IsLegacyRow(row) == row.version < CurrentVersion \/ row.text = Absent

\* filter, by the places of the rows it keeps.
SelectLegacyRows(rs) ==
  LET legacy == {i \in DOMAIN rs : IsLegacyRow(rs[i])}
  IN  [k \in 1..Cardinality(legacy) |->
         rs[CHOOSE i \in legacy : Cardinality({j \in legacy : j <= i}) = k]]

HashesRoot(hashes) == ComputeRoot([i \in DOMAIN hashes |-> HashLeaf(hashes[i])])

BuildAnchor(rs) ==
  LET legacy == SelectLegacyRows(rs)
      hashes == [i \in DOMAIN legacy |-> legacy[i].hash]
  IN  [ids |-> [i \in DOMAIN legacy |-> legacy[i].id], hashes |-> hashes,
       root |-> HashesRoot(hashes)]

\* An anchor's payload as JSON: its ids, its hashes and their root.
AnchorJson(a) ==
  Obj(<<Member(<<1>>, Arr([i \in DOMAIN a.ids |-> Num(a.ids[i])])),
        Member(<<2>>, Arr([i \in DOMAIN a.hashes |-> Str(a.hashes[i])])),
        Member(<<3>>, Str(a.root))>>)

\* The anchor is an entry like any other; there is none over no rows.
Seal ==
  /\ migrated /\ changes = 0 /\ Len(rows) < MaxRows
  /\ anchor = Absent /\ SelectLegacyRows(rows) # <<>>
  /\ anchor' = BuildAnchor(rows)
  /\ Adds(NewRow(AnchorJson(BuildAnchor(rows))))
  /\ UNCHANGED <<migrated, stored, changes>>

\* A leaf made of the payload alone, and the leaf of the whole row.
PayloadLeaf(row) == HashLeaf(row.payload)
LeafBytes(row) == HashLeaf(<<row.id, row.payload, row.prev, row.hash>>)

Root(rs) == [hash |-> ComputeRoot([i \in DOMAIN rs |-> LeafBytes(rs[i])]), count |-> Len(rs)]

SealRoot ==
  /\ migrated /\ changes = 0
  /\ stored' = Root(rows)
  /\ UNCHANGED <<rows, truth, migrated, anchor, changes>>

(***************************************************************************)
(* A row is changed by other means.  The table's check keeps a canonical   *)
(* text and its payload equal as jsonb, and nothing else.                  *)
(***************************************************************************)

\* The text with its members turned round: equal as jsonb, not canonical.
Reordered(x) ==
  <<Mark("{")>>
  \o Written(Entries(x, Reverse(InOrder(Keys(x), CodeUnitOrder(Keys(x))))), MaxNesting)
  \o <<Mark("}")>>

Changed(row) ==
  {[row EXCEPT !.hash = <<"other">>], [row EXCEPT !.prev = <<"other">>]}
  \cup (UNION {IF row.text = Absent
               THEN {[row EXCEPT !.payload = Jsonb(x)]}
               ELSE {[row EXCEPT !.payload = Jsonb(x), !.text = Canonicalize(x)],
                     [row EXCEPT !.payload = Jsonb(x), !.text = Canonicalize(x),
                                 !.hash = ChainHash(Canonicalize(x), row.prev)]}
               : x \in {y \in Payloads : Canonicalizable(y)}})
  \cup (IF row.text # Absent /\ row.payload.t = "obj"
        THEN {[row EXCEPT !.text = Reordered(row.payload)]} ELSE {})

Change ==
  /\ changes < MaxChanges
  /\ \E i \in DOMAIN rows :
       \/ \E r \in Changed(rows[i]) : rows' = [rows EXCEPT ![i] = r]
       \/ rows' = RemoveAt(rows, i)
  /\ migrated /\ changes' = changes + 1
  /\ UNCHANGED <<truth, migrated, anchor, stored>>

AuditNext == AppendLegacy \/ Migrate \/ AppendEntry \/ Seal \/ SealRoot \/ Change

AuditSpec == AuditInit /\ [][AuditNext]_audit

(***************************************************************************)
(* The checks.                                                             *)
(***************************************************************************)

\* verifyChainDetailed: an entry's link, its hash, and the form of its text.
Links(rs, i) == rs[i].prev = IF i = 1 THEN Genesis ELSE rs[i - 1].hash
HashHolds(row) ==
  \/ IsLegacyRow(row)
  \/ row.hash = ChainHash(row.text, row.prev) /\ Canonicalize(row.payload) = row.text

VerifyChain(rs) == \A i \in DOMAIN rs : Links(rs, i) /\ HashHolds(rs[i])

\* verifyLegacyAnchor.
VerifyAnchor(a, rs) ==
  /\ \A i \in DOMAIN a.ids : \E j \in DOMAIN rs :
       rs[j].id = a.ids[i] /\ rs[j].hash = a.hashes[i]
  /\ HashesRoot(a.hashes) = a.root

\* reportLegacySegment: the legacy rows come first.
LegacyIsPrefix(rs) ==
  \A i, j \in DOMAIN rs : i < j /\ IsLegacyRow(rs[j]) => IsLegacyRow(rs[i])

-------------------------------------------------------------------------------

\* Two entries have one text exactly when they say the same: "two different payloads
\* hash identically" is "precisely the collision a ledger must not permit".
TextsAreFaithful ==
  \A i, j \in DOMAIN truth :
    truth[i].text # Absent /\ truth[j].text # Absent =>
      (truth[i].text = truth[j].text <=> SameJson(truth[i].payload, truth[j].payload))

\* A chain nobody interfered with passes every check, whatever was appended, before
\* or after V009, with whatever order of members: no honest chain is ever reported.
HonestPasses ==
  changes = 0 =>
    /\ VerifyChain(rows)
    /\ LegacyIsPrefix(rows)
    /\ anchor # Absent => VerifyAnchor(anchor, rows)
    /\ stored # Absent => stored = Root(SubSeq(rows, 1, stored.count))

\* What the chain tells of a row written since V009: under the hash it had, it says what
\* it said, of the row it came after.  It tells nothing of a legacy row, nor of a row
\* whose hash was made anew and that no other row comes after.
EntriesTell ==
  VerifyChain(rows) =>
    \A j \in DOMAIN rows :
      LET was == truth[rows[j].id]
      IN  ~IsLegacyRow(rows[j]) /\ rows[j].hash = was.hash =>
            /\ rows[j].prev = was.prev /\ rows[j].text = was.text
            /\ SameJson(rows[j].payload, was.payload)

\* What the anchor tells of the legacy rows, "that their current_hash values were exactly
\* these": it is intact exactly when each is there with the hash it had.  So a legacy row
\* whose payload is altered under its hash leaves the anchor intact, whatever the comment
\* of verifyLegacyAnchor has it do (legacy-anchor.ts:133-135).
AnchorTells ==
  anchor # Absent =>
    (VerifyAnchor(anchor, rows) <=>
       \A k \in DOMAIN truth : truth[k].version = 1 =>
         \E j \in DOMAIN rows : rows[j].id = k /\ rows[j].hash = truth[k].hash)

\* What a stored root tells: every row under it is the row that was written, in full, the
\* legacy ones too; a change to any of them shows in the chain or in another root.
RootTells ==
  stored # Absent /\ VerifyChain(rows) /\ stored.count <= Len(rows) =>
    LET covered == SubSeq(rows, 1, stored.count)
    IN  stored = Root(covered) => covered = SubSeq(truth, 1, stored.count)

\* What verification tells: an honest chain passes all of it (LedgerClient.verifyChain,
\* verifyLegacyAnchor, the stored root), and an altered one does not pass the part that
\* covers what was altered.
VerificationTells ==
  TextsAreFaithful /\ HonestPasses /\ EntriesTell /\ AnchorTells /\ RootTells
===============================================================================
