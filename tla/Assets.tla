------------------------------- MODULE Assets -------------------------------
(***************************************************************************)
(* Shares: the universe of packages/engine/src/ledger/assets.ts, and what  *)
(* contracts do to it through qubic-simulator.ts: issue, transfer and burn *)
(* shares, hand management rights to each other, and pay dividends.        *)
(*                                                                         *)
(* The universe is an open-addressed hash table that is never shrunk.  An  *)
(* issuance has ownerships, an ownership has possessions; a record is      *)
(* found by probing from the slot its public key hashes to, or by walking  *)
(* the list its parent keeps.  The linked lists are sequences, the newest  *)
(* child first.                                                            *)
(*                                                                         *)
(* The id of a contract is its slot and the id 0 is nobody: the issuer of  *)
(* contract shares, and the destination of a burn.  A call that hands      *)
(* rights over or pays dividends runs code of other contracts in the       *)
(* middle; frames is the stack of such calls.  A fault in that code stops  *)
(* the node (TickEngine) and is left out here.                             *)
(***************************************************************************)
EXTENDS Sums, SequencesExt

CONSTANTS
  Slots,           \* deployed contracts; slot 1 is QX, which manages contract shares
  Users,
  Names, NoName,   \* asset names; "no name"
  UserStart,       \* user -> where its probes start
  UserLow,         \* user -> what issueAssetRaw compares of its key
  Capacity,        \* ASSET_CAPACITY
  CommitteeSize,   \* what a dividend of one for every share is debited
  Mints,           \* shares a deployed contract is given; CommitteeSize unless named
  Receivers,       \* who shares are minted for and transferred to
  Fixtures,        \* contracts whose asset a test names without issuing it
  Endowment,       \* energy of a contract at the start
  Fees,            \* fees offered for a transfer of rights
  Supplies,        \* shares issued by a contract
  Amounts,         \* shares moved at once
  MaxRecords       \* bound of the model: records in the universe

QX == 1
Nobody == 0
Ids == Users \cup Slots \cup {Nobody}
Index == 0 .. Capacity - 1
NoIndex == -1        \* NO_ASSET_INDEX
Root == Capacity     \* the parent of all issuances

ASSUME AssetConstants ==
  /\ QX \in Slots /\ Slots \subseteq Nat \ {0} /\ IsFiniteSet(Slots) /\ IsFiniteSet(Users)
  /\ NoName \notin Names
  /\ MaxRecords \in Nat /\ Capacity \in Nat /\ MaxRecords < Capacity
  /\ CommitteeSize \in Nat \ {0} /\ Mints \subseteq Nat \ {0} /\ Fixtures \subseteq Slots
  /\ Endowment \in Nat
  /\ Fees \subseteq Nat /\ Supplies \subseteq Nat /\ Amounts \subseteq Nat
  /\ Receivers \subseteq Users \cup Slots
  /\ UserStart \in [Users -> Index]

VARIABLES
  table,           \* index -> record or Hole
  children,        \* index or Root -> indices of the children, newest first
  contractAssetNames,
  energy,          \* id -> balance
  frames,          \* calls that are waiting for a callback, innermost last
  outstanding,     \* history: asset -> shares issued and not burned
  vanished         \* history: what dividends took beyond one for every share

vars == <<table, children, contractAssetNames, energy, frames, outstanding, vanished>>
universe == <<table, children, outstanding>>
money == <<energy, vanished>>

Hole == [type |-> "hole"]
Issuance(id, name) == [type |-> "issuance", id |-> id, name |-> name]
Holding(type, id, mgmt, ref, shares) ==
  [type |-> type, id |-> id, mgmt |-> mgmt, ref |-> ref, shares |-> shares]

StartOf(id) == IF id \in Users THEN UserStart[id] ELSE id % Capacity
Low(id) == IF id \in Users THEN UserLow[id] ELSE id

Init ==
  /\ table = [i \in Index |-> Hole] /\ children = [i \in Index \cup {Root} |-> << >>]
  /\ contractAssetNames = [s \in Slots |-> NoName]
  /\ energy = [id \in Ids |-> IF id \in Slots THEN Endowment ELSE 0]
  /\ frames = << >> /\ outstanding = [a \in Ids \X Names |-> 0] /\ vanished = 0

(***************************************************************************)
(* Probing.  A probe stops at a hole or at the record it looks for; a full *)
(* table would let it run forever.                                         *)
(***************************************************************************)

Probe(t, start, sought) ==
  LET At(k) == (start + k) % Capacity
      Stops(k) == t[At(k)] = Hole \/ At(k) \in sought
  IN At(CHOOSE k \in Index : Stops(k) /\ \A j \in 0 .. k - 1 : ~Stops(j))

Found(t, i) == IF t[i] = Hole THEN NoIndex ELSE i

IssuanceIndex(t, issuer, name) ==
  LET sought == {i \in Index : t[i].type = "issuance" /\ t[i].name = name /\ t[i].id = issuer}
  IN Found(t, Probe(t, StartOf(issuer), sought))

IsHolding(r, type, id, mgmt, ref) ==
  r.type = type /\ r.id = id /\ r.mgmt = mgmt /\ r.ref = ref

\* Where the holding of id is, or the hole it would go into.
PlaceOf(t, type, id, mgmt, ref) ==
  Probe(t, StartOf(id), {i \in Index : IsHolding(t[i], type, id, mgmt, ref)})

\* numberOfPossessedShares: both records are looked up by all of their key.
NumberOfPossessedShares(t, issuer, name, owner, ownMgmt, posMgmt) ==
  LET i == IssuanceIndex(t, issuer, name)
      o == Found(t, PlaceOf(t, "ownership", owner, ownMgmt, i))
      p == Found(t, PlaceOf(t, "possession", owner, posMgmt, o))
  IN IF i = NoIndex \/ o = NoIndex \/ p = NoIndex THEN 0 ELSE t[p].shares

\* What transferShareOwnershipAndPossession looks for: the first possession of
\* the possessor, whoever manages it.
HeldBy(t, issuer, name, owner, slot) ==
  LET i == IssuanceIndex(t, issuer, name)
      o == Found(t, PlaceOf(t, "ownership", owner, slot, i))
      sought == {q \in Index : t[q].type = "possession" /\ t[q].ref = o /\ t[q].id = owner}
      p == Found(t, Probe(t, StartOf(owner), sought))
  IN IF i = NoIndex \/ o = NoIndex \/ p = NoIndex \/ (p # NoIndex /\ t[p].mgmt # slot)
       THEN [own |-> NoIndex, pos |-> NoIndex]
       ELSE [own |-> o, pos |-> p]

\* nextChildIndex again and again: the children of a parent that belong to id,
\* in probe order, up to the first hole, ...
ProbedChildren(t, type, parent, id) ==
  LET At(k) == (StartOf(id) + k) % Capacity
      hole == Min({k \in Index : t[At(k)] = Hole})
  IN {At(k) : k \in {k \in 0 .. hole - 1 :
                       /\ t[At(k)].type = type /\ t[At(k)].ref = parent
                       /\ t[At(k)].id = id}}

\* ... and all of them, by the list.
ListedChildren(parent) == ToSet(children[parent])

\* transferShareManagementRights takes the first ownership and possession that
\* its two walks select.
RightsHeldBy(t, issuer, name, owner, mgmt) ==
  LET i == IssuanceIndex(t, issuer, name)
      owned == {o \in ProbedChildren(t, "ownership", i, owner) : t[o].mgmt = mgmt}
      pairs == {[own |-> o, pos |-> p] : o \in owned,
                  p \in UNION {ProbedChildren(t, "possession", o, owner) : o \in owned}}
      right == {q \in pairs : t[q.pos].ref = q.own /\ t[q.pos].mgmt = mgmt}
  IN IF i = NoIndex \/ right = {} THEN [own |-> NoIndex, pos |-> NoIndex]
     ELSE CHOOSE q \in right : TRUE

(***************************************************************************)
(* Changing the universe.  A universe is [t |-> table, c |-> children].    *)
(***************************************************************************)

\* setRecord and the prepending to the parent's list.
Put(u, i, r, parent) ==
  [t |-> [u.t EXCEPT ![i] = r], c |-> [u.c EXCEPT ![parent] = <<i>> \o @]]

Debit_clears(u, i, n) ==
  [u EXCEPT !.t[i] = IF @.shares = n THEN Hole ELSE [@ EXCEPT !.shares = u.t[i].shares - n]]
Debit(u, i, n) == [u EXCEPT !.t[i].shares = @ - n]

Credit(u, type, id, mgmt, parent, n) ==
  LET i == PlaceOf(u.t, type, id, mgmt, parent) IN
  IF u.t[i] = Hole THEN Put(u, i, Holding(type, id, mgmt, parent, n), parent)
                   ELSE [u EXCEPT !.t[i].shares = @ + n]

Move_stale(u, from, owner, possessor, ownMgmt, posMgmt, n) ==
  LET issuance == u.t[from.own].ref
      u2 == Credit(u, "ownership", owner, ownMgmt, issuance, n)
      o == PlaceOf(u2.t, "ownership", owner, ownMgmt, issuance)
      u4 == Credit(u2, "possession", possessor, posMgmt, o, n)
      Left(i) == [u4.t[i] EXCEPT !.shares = u.t[i].shares - n]
  IN [u4 EXCEPT !.t = [u4.t EXCEPT ![from.own] = Left(from.own),
                                   ![from.pos] = Left(from.pos)]]

\* transferShareOwnershipAndPossessionByIndex and
\* transferShareManagementRightsByIndex: the source may be the destination.
Move(u, from, owner, possessor, ownMgmt, posMgmt, n) ==
  LET issuance == u.t[from.own].ref
      u1 == Debit(u, from.own, n)
      u2 == Credit(u1, "ownership", owner, ownMgmt, issuance, n)
      o  == PlaceOf(u2.t, "ownership", owner, ownMgmt, issuance)
      u3 == Debit(u2, from.pos, n)
  IN Credit(u3, "possession", possessor, posMgmt, o, n)

Now == [t |-> table, c |-> children]

RoomFor(n) == Cardinality({i \in Index : table[i] # Hole}) + n <= MaxRecords

Becomes(u) ==
  /\ Cardinality({i \in Index : u.t[i] # Hole}) <= MaxRecords
  /\ table' = u.t /\ children' = u.c

(***************************************************************************)
(* Issuing.                                                                *)
(***************************************************************************)

FirstHole(t, start) == Probe(t, start, {})

\* issueAssetRaw, when the asset is new.
Issued(u, issuer, name, shares, slot) ==
  LET i  == FirstHole(u.t, StartOf(issuer))
      u1 == Put(u, i, Issuance(issuer, name), Root)
      o  == FirstHole(u1.t, (i + 1) % Capacity)
      u2 == Put(u1, o, Holding("ownership", issuer, slot, i, shares), i)
      p  == FirstHole(u2.t, (o + 1) % Capacity)
  IN Put(u2, p, Holding("possession", issuer, slot, o, shares), o)

\* The key of an issuance is the name and the low bits of the issuer.
AlreadyIssued(t, issuer, name) ==
  LET sought == {i \in Index : /\ t[i].type = "issuance" /\ t[i].name = name
                               /\ Low(t[i].id) = Low(issuer)}
  IN t[Probe(t, StartOf(issuer), sought)] # Hole

Top == frames[Len(frames)]

\* Contract code runs: in a transaction, or in a callback.
CodeRuns == frames # << >> => Top.stage # "called"

\* issueAsset: for the contract itself, or for whoever called it.
IssueAsset(slot, issuer, name, shares) ==
  /\ CodeRuns /\ RoomFor(3)
  /\ issuer # Nobody /\ issuer \in Users \cup {slot}
  /\ ~AlreadyIssued(table, issuer, name)
  /\ Becomes(Issued(Now, issuer, name, shares, slot))
  /\ outstanding' = [outstanding EXCEPT ![<<issuer, name>>] = shares]
  /\ UNCHANGED <<contractAssetNames, money, frames>>

\* A test fixture names the asset of a contract and issues nothing.
SetContractAssetName(slot, name) ==
  /\ frames = << >>
  /\ contractAssetNames' = [contractAssetNames EXCEPT ![slot] = name]
  /\ UNCHANGED <<universe, money, frames>>

\* mintDeployShares, between transactions: a deployed contract's shares are
\* issued by nobody to nobody and given to the deployer, in a number that the
\* caller may name; an asset that is there already keeps its number.
MintDeployShares(slot, name, holder, shares) ==
  /\ frames = << >>
  /\ contractAssetNames' = [contractAssetNames EXCEPT ![slot] = name]
  /\ IF IssuanceIndex(table, Nobody, name) # NoIndex
       THEN UNCHANGED universe
       ELSE LET u == Issued(Now, Nobody, name, shares, QX)
                from == HeldBy(u.t, Nobody, name, Nobody, QX)
            IN /\ RoomFor(5) /\ Becomes(Move(u, from, holder, holder, QX, QX, shares))
               /\ outstanding' = [outstanding EXCEPT ![<<Nobody, name>>] = shares]
  /\ UNCHANGED <<money, frames>>

(***************************************************************************)
(* Transferring and burning.                                               *)
(***************************************************************************)

\* transferShareOwnershipAndPossession by the contract that manages the shares.
TransferShares(slot, issuer, name, owner, shares, newOwner) ==
  LET from == HeldBy(table, issuer, name, owner, slot) IN
  /\ CodeRuns /\ newOwner # Nobody
  /\ from.own # NoIndex /\ table[from.pos].shares >= shares
  /\ Becomes(Move(Now, from, newOwner, newOwner, table[from.own].mgmt,
                  table[from.pos].mgmt, shares))
  /\ UNCHANGED <<contractAssetNames, money, frames, outstanding>>

\* The same call with nobody as the new owner; contract shares stay.
BurnShares(slot, issuer, name, owner, shares) ==
  LET from == HeldBy(table, issuer, name, owner, slot) IN
  /\ CodeRuns /\ issuer # Nobody
  /\ from.own # NoIndex /\ table[from.pos].shares >= shares
  /\ Becomes(Debit(Debit(Now, from.own, shares), from.pos, shares))
  /\ outstanding' = [outstanding EXCEPT ![<<issuer, name>>] = @ - shares]
  /\ UNCHANGED <<contractAssetNames, money, frames>>

(***************************************************************************)
(* Management rights: acquireShares and releaseShares.                     *)
(***************************************************************************)

ReplaceTop(f) == frames' = [frames EXCEPT ![Len(frames)] = f]
Return == frames' = SubSeq(frames, 1, Len(frames) - 1)

IsPayout(f) == "unpaid" \in DOMAIN f

\* callbacksRunning has the flag of a transfer of rights.
RightsCallbackRuns == \E k \in DOMAIN frames : frames[k].stage \in {"pre", "post"}

\* pitDepth > 0: somewhere below, a POST_INCOMING_TRANSFER is running.
InIncomingTransfer == \E k \in DOMAIN frames : frames[k].stage \in {"fee", "dividend"}

From(f) == IF f.releases THEN f.caller ELSE f.other
To(f)   == IF f.releases THEN f.other ELSE f.caller

\* Up to the call of PRE_RELEASE_SHARES or PRE_ACQUIRE_SHARES: the shares must be
\* there.
AskForRights(caller, other, releases, issuer, name, owner, shares, offered) ==
  LET f == [caller |-> caller, other |-> other, releases |-> releases,
            issuer |-> issuer, name |-> name, owner |-> owner, shares |-> shares,
            offered |-> offered, fee |-> 0, stage |-> "pre"]
  IN /\ CodeRuns /\ ~RightsCallbackRuns /\ other # caller
     /\ NumberOfPossessedShares(table, issuer, name, owner, From(f), From(f)) >= shares
     /\ frames' = Append(frames, f)
     /\ UNCHANGED <<contractAssetNames, money, universe>>

\* The counterparty refuses, or wants more than was offered.
RefuseRights ==
  /\ frames # << >> /\ Top.stage = "pre" /\ Return
  /\ UNCHANGED <<contractAssetNames, money, universe>>

\* transfer: a contract takes no money inside a POST_INCOMING_TRANSFER.
FeeRefused_never(f, fee) == energy[f.caller] < fee
FeeRefused(f, fee) == InIncomingTransfer \/ energy[f.caller] < fee

PayFee(f, fee) == energy' = [energy EXCEPT ![f.caller] = @ - fee, ![f.other] = @ + fee]

\* The counterparty allows it, for a fee that is paid at once; the counterparty
\* may have a POST_INCOMING_TRANSFER that runs before the rights move.
AllowRights(fee) ==
  /\ frames # << >> /\ Top.stage = "pre" /\ fee <= Top.offered
  /\ IF FeeRefused(Top, fee)
       THEN Return /\ UNCHANGED energy
       ELSE /\ PayFee(Top, fee)
            /\ \/ fee > 0 /\ ReplaceTop([Top EXCEPT !.stage = "fee", !.fee = fee])
               \/ ReplaceTop([Top EXCEPT !.stage = "called", !.fee = fee])
  /\ UNCHANGED <<contractAssetNames, universe, vanished>>

FeeCallbackReturns ==
  /\ frames # << >> /\ Top.stage = "fee"
  /\ ReplaceTop([Top EXCEPT !.stage = "called"])
  /\ UNCHANGED <<contractAssetNames, money, universe>>

\* transferShareManagementRights looks the shares up again, and gives up if they
\* are gone; then the POST callback runs, if there is one.
MoveRights ==
  LET f == Top
      from == RightsHeldBy(table, f.issuer, f.name, f.owner, From(f))
      held == from.own # NoIndex /\ table[from.own].shares >= f.shares
                                 /\ table[from.pos].shares >= f.shares
  IN /\ frames # << >> /\ ~IsPayout(f) /\ f.stage = "called"
     /\ IF held
          THEN /\ Becomes(Move(Now, from, table[from.own].id, table[from.pos].id,
                               To(f), To(f), f.shares))
               /\ ReplaceTop([f EXCEPT !.stage = "post"]) \/ Return
          ELSE Return /\ UNCHANGED <<table, children>>
     /\ UNCHANGED <<contractAssetNames, money, outstanding>>

PostCallbackReturns ==
  /\ frames # << >> /\ Top.stage = "post" /\ Return
  /\ UNCHANGED <<contractAssetNames, money, universe>>

(***************************************************************************)
(* distributeDividends, of one for every share: one debit, of as much as   *)
(* the committee has members, then a credit for each possessor as they     *)
(* were at that moment.                                                    *)
(***************************************************************************)

Possessions_qx(issuer, name) ==
  LET i == IssuanceIndex(table, issuer, name) IN
  IF i = NoIndex THEN << >>
  ELSE SelectSeq(FlattenSeq([k \in DOMAIN children[i] |-> children[children[i][k]]]),
                 LAMBDA p : table[p].mgmt = QX)

\* possessionsOf, by the lists, whoever manages the shares.
Possessions(issuer, name) ==
  LET i == IssuanceIndex(table, issuer, name) IN
  IF i = NoIndex THEN << >>
  ELSE FlattenSeq([k \in DOMAIN children[i] |-> children[children[i][k]]])

\* The shares that a payout of this contract reaches.
SharesOf(slot) ==
  IF contractAssetNames[slot] = NoName THEN 0
                                       ELSE outstanding[<<Nobody, contractAssetNames[slot]>>]

DistributeDividends(slot) ==
  LET all == Possessions(Nobody, contractAssetNames[slot])
  IN /\ CodeRuns /\ ~InIncomingTransfer
     /\ energy[slot] >= CommitteeSize
     /\ energy' = [energy EXCEPT ![slot] = @ - CommitteeSize]
     /\ vanished' = vanished + CommitteeSize - SharesOf(slot)
     /\ frames' = Append(frames, [stage |-> "called", unpaid |->
                    [k \in DOMAIN all |-> [id |-> table[all[k]].id,
                                           amount |-> table[all[k]].shares]]])
     /\ UNCHANGED <<contractAssetNames, universe>>

\* A possessor is paid; if it is a contract, its POST_INCOMING_TRANSFER may run.
\* One without shares is passed over.
PayDividend ==
  /\ frames # << >> /\ IsPayout(Top) /\ Top.stage = "called" /\ Top.unpaid # << >>
  /\ LET next == Head(Top.unpaid) IN
     /\ energy' = [energy EXCEPT ![next.id] = @ + next.amount]
     /\ \/ /\ next.id \in Slots /\ next.amount # 0
           /\ ReplaceTop([stage |-> "dividend", unpaid |-> Tail(Top.unpaid)])
        \/ ReplaceTop([stage |-> "called", unpaid |-> Tail(Top.unpaid)])
  /\ UNCHANGED <<contractAssetNames, universe, vanished>>

DividendCallbackReturns ==
  /\ frames # << >> /\ Top.stage = "dividend"
  /\ ReplaceTop([Top EXCEPT !.stage = "called"])
  /\ UNCHANGED <<contractAssetNames, money, universe>>

EndPayout ==
  /\ frames # << >> /\ IsPayout(Top) /\ Top.stage = "called" /\ Top.unpaid = << >>
  /\ Return
  /\ UNCHANGED <<contractAssetNames, money, universe>>

Used == {i \in Index : table[i] # Hole}
OfType(type) == {i \in Used : table[i].type = type}

\* The calls of a contract that name shares somebody owns.
UseShares(slot, issuer, name, owner, n) ==
  \/ \E newOwner \in Receivers : TransferShares(slot, issuer, name, owner, n, newOwner)
  \/ BurnShares(slot, issuer, name, owner, n)
  \/ \E other \in Slots, releases \in BOOLEAN, fee \in Fees :
       AskForRights(slot, other, releases, issuer, name, owner, n, fee)

Next ==
  \/ \E slot \in Slots, issuer \in Ids, name \in Names, n \in Supplies :
       IssueAsset(slot, issuer, name, n)
  \/ \E slot \in Fixtures, name \in Names : SetContractAssetName(slot, name)
  \/ \E slot \in Slots, name \in Names, holder \in Receivers, n \in Mints :
       MintDeployShares(slot, name, holder, n)
  \/ \E slot \in Slots, o \in OfType("ownership"), n \in Amounts :
       UseShares(slot, table[table[o].ref].id, table[table[o].ref].name, table[o].id, n)
  \/ RefuseRights \/ (\E fee \in Fees \cup {0} : AllowRights(fee)) \/ FeeCallbackReturns
  \/ MoveRights \/ PostCallbackReturns
  \/ (\E slot \in Slots : DistributeDividends(slot))
  \/ PayDividend \/ DividendCallbackReturns \/ EndPayout

Spec == Init /\ [][Next]_vars

(***************************************************************************)
(* Properties.                                                             *)
(***************************************************************************)

Assets == Ids \X Names
IssuedAssets == {<<table[i].id, table[i].name>> : i \in OfType("issuance")}
ChildrenOf(type, parent) == {i \in OfType(type) : table[i].ref = parent}
SharesIn(S) == Total([i \in S |-> table[i].shares], S)

\* The type invariant of the asset universe.
TypeOK ==
  /\ DOMAIN table = Index /\ Cardinality(Used) <= MaxRecords
  /\ \A i \in Used :
       IF table[i].type = "issuance" THEN table[i] \in [type : {"issuance"}, id : Ids, name : Names]
       ELSE table[i] \in [type : {"ownership", "possession"}, id : Ids, mgmt : Slots,
                          ref : Index, shares : Nat]
  /\ children \in [Index \cup {Root} -> Seq(Index)]
  /\ contractAssetNames \in [Slots -> Names \cup {NoName}]
  /\ energy \in [Ids -> Nat] /\ outstanding \in [Assets -> Nat] /\ vanished \in Int
  /\ Len(frames) <= 2

\* No share appears or is lost, whatever is moved where, also onto itself and in
\* the middle of a callback: the ownerships of an asset add up to what was issued
\* and not burned, and the possessions of an ownership to the ownership.
SharesConserved ==
  /\ \A a \in Assets : LET i == IssuanceIndex(table, a[1], a[2]) IN
       outstanding[a] = IF i = NoIndex THEN 0 ELSE SharesIn(ChildrenOf("ownership", i))
  /\ \A o \in OfType("ownership") : table[o].shares = SharesIn(ChildrenOf("possession", o))

\* Every record is where a probe for it ends, so no key is there twice and none is
\* hidden behind a hole.
RecordsAreFound ==
  \A i \in Used : LET r == table[i] IN
    i = IF r.type = "issuance" THEN IssuanceIndex(table, r.id, r.name)
                               ELSE PlaceOf(table, r.type, r.id, r.mgmt, r.ref)

\* The two ways to walk the children of a record agree: the list holds each child
\* once, and a walk by id finds exactly those of the list that have the id.
WalksAgree ==
  /\ ListedChildren(Root) = OfType("issuance")
  /\ \A parent \in OfType("issuance") \cup OfType("ownership") :
       LET type == IF table[parent].type = "issuance" THEN "ownership" ELSE "possession" IN
       /\ ListedChildren(parent) = ChildrenOf(type, parent)
       /\ Len(children[parent]) = Cardinality(ListedChildren(parent))
       /\ \A id \in Ids : ProbedChildren(table, type, parent, id)
                         = {c \in ListedChildren(parent) : table[c].id = id}

\* The three ways to look up what a contract manages for an owner agree: what
\* numberOfPossessedShares reports can be transferred and its rights can be moved.
\* Each of them compares other parts of the keys.
SearchesAgree ==
  \A a \in IssuedAssets, owner \in Ids, slot \in Slots :
    LET n == NumberOfPossessedShares(table, a[1], a[2], owner, slot, slot)
        h == HeldBy(table, a[1], a[2], owner, slot)
    IN /\ n > 0 => h.own # NoIndex
       /\ h.own # NoIndex => table[h.pos].shares = n
       /\ h = RightsHeldBy(table, a[1], a[2], owner, slot)

\* However the records came about, every way to look one up finds it: probing for
\* a key, walking a parent's children, and searching what a contract manages.
LookupsAgree == TypeOK /\ RecordsAreFound /\ WalksAgree /\ SearchesAgree

Managed(a, slot) ==
  LET i == IssuanceIndex(table, a[1], a[2])
      Is(p) == table[p].mgmt = slot /\ table[table[p].ref].ref = i
  IN SharesIn({p \in OfType("possession") : Is(p)})

\* Shares change their manager only as the two contracts agreed, and never in the
\* middle of another call: a callback cannot move rights under a call that has
\* checked them and waits, although POST_INCOMING_TRANSFER may ask for it.
RightsMoveAsAgreed ==
  [][table' # table /\ outstanding' = outstanding =>
       \A a \in IssuedAssets, slot \in Slots :
         Managed(a, slot)' # Managed(a, slot) =>
           /\ Len(frames) = 1 /\ Top.stage = "called" /\ a = <<Top.issuer, Top.name>>
           /\ \/ slot = From(Top) /\ Managed(a, slot)' = Managed(a, slot) - Top.shares
              \/ slot = To(Top) /\ Managed(a, slot)' = Managed(a, slot) + Top.shares]_vars

Unpaid(f) ==
  IF IsPayout(f) THEN Total([k \in DOMAIN f.unpaid |-> f.unpaid[k].amount], DOMAIN f.unpaid) ELSE 0

\* A dividend is debited at once and credited one possessor at a time: it reaches
\* every outstanding share once, whoever manages it, and nothing is lost or made in
\* between, except that a contract with more or fewer shares than the committee has
\* members pays the committee's number all the same.
MoneyConserved ==
  Total(energy, Ids) + Total([k \in DOMAIN frames |-> Unpaid(frames[k])], DOMAIN frames) + vanished
    = Cardinality(Slots) * Endowment

=============================================================================
