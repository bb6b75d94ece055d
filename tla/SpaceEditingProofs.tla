------------------------ MODULE SpaceEditingProofs ------------------------
(***************************************************************************)
(* Proofs about SpaceEditing, for any number of browsers, any spaces,      *)
(* measures, versions and requests, and for all interleavings of their     *)
(* statements.                                                             *)
(*                                                                         *)
(* The argument is that of rely and guarantee.  What a transaction has     *)
(* read and written (Sound) can only be disturbed by the commit of another *)
(* one.  A commit leaves alone the rows that others have locked            *)
(* (Undisturbed), and changes the rest of the database in certain ways     *)
(* only (Evolves): these two are enough for every other transaction.       *)
(***************************************************************************)
EXTENDS SpaceEditing, FiniteSetTheorems, TLAPS

Drafted(v) == IsDraftIn(db[HeaderKey(v)])
Exists(v) == db[HeaderKey(v)].status # "none"
Holds(c, k) == k \in DOMAIN tx[c]

\* The rows have their types; every key has one.
RowsTyped ==
    /\ DOMAIN db = Keys
    /\ \A s \in Spaces : db[SpaceKey(s)] \in SpaceRow
    /\ \A v \in Versions : db[HeaderKey(v)] \in HeaderRow
    /\ \A v \in Versions, s \in Spaces :
          db[ScopeKey(v, s)] \in ScopeRow \cup {NoScope}

\* The versions follow one another: only the last is current, a draft is
\* current, and a version that does not exist has no scope.
Chain ==
    \A v \in Versions :
        /\ db[HeaderKey(v)].isCurrent => Exists(v)
        /\ db[HeaderKey(v)].status = "DRAFT" => db[HeaderKey(v)].isCurrent
        /\ db[HeaderKey(v)].isCurrent => \A w \in Versions : w > v => ~Exists(w)
        /\ Exists(v) => \E w \in Versions : db[HeaderKey(w)].isCurrent
        /\ ~Exists(v) => \A s \in Spaces : db[ScopeKey(v, s)] = NoScope

\* A row is locked by one transaction.
LocksDisjoint ==
    \A c, d \in Clients : c # d => DOMAIN tx[c] \cap DOMAIN tx[d] = {}

\* Two requests never add the same space.
AddersApart ==
    \A c, d \in Clients :
        req[c].op = "addSpace" /\ req[d].op = "addSpace"
            /\ req[c].space = req[d].space => c = d

SpacesHeld(c) ==
    \A s \in Spaces : Holds(c, SpaceKey(s)) =>
        /\ tx[c][SpaceKey(s)] \in SpaceRow
        /\ db[SpaceKey(s)].state = "live"
        /\ \/ tx[c][SpaceKey(s)].state = "live"
           \/ /\ tx[c][SpaceKey(s)].state = "deleted"
              /\ req[c].op = "deleteSpace" /\ s = req[c].space

HeadersHeld(c) ==
    \A v \in Versions : Holds(c, HeaderKey(v)) =>
        /\ tx[c][HeaderKey(v)] \in HeaderRow
        /\ v = req[c].version
        /\ Drafted(v) /\ IsDraftIn(tx[c][HeaderKey(v)])
        /\ tx[c][HeaderKey(v)].revision >= db[HeaderKey(v)].revision
        /\ req[c].op \in {"deleteSpace", "updateLine"}

ScopesHeld(c) ==
    \A v \in Versions, s \in Spaces : Holds(c, ScopeKey(v, s)) =>
        /\ tx[c][ScopeKey(v, s)] \in ScopeRow \cup {NoScope}
        /\ db[ScopeKey(v, s)] # NoScope
        /\ \/ /\ req[c].op = "updateSpace" /\ s = req[c].space
              /\ tx[c][ScopeKey(v, s)] # NoScope
           \/ /\ req[c].op = "deleteSpace" /\ v = req[c].version
              /\ Holds(c, HeaderKey(v))
              /\ tx[c][ScopeKey(v, s)] = NoScope => s = req[c].space

BeforeWriting ==
    {"idle", "state", "insert", "row", "findHeader", "lockHeader",
     "openDraft", "createDraft", "addScopes", "saveHeader"}

\* Where a request can stand, and that it has written nothing at first.
Stands(c) ==
    LET r == req[c]
    IN  /\ r.at \in BeforeWriting => DOMAIN tx[c] = {}
        /\ \/ r.op = "none" /\ r.at = "idle"
           \/ r.op = "addSpace" /\ r.at \in {"state", "insert"}
           \/ r.op = "updateSpace"
              /\ r.at \in {"state", "row", "findDraft", "area", "quantity",
                           "amount", "subtotal", "sum", "totals"}
           \/ r.op = "deleteSpace"
              /\ r.at \in {"state", "findHeader", "lockHeader", "softDelete",
                           "dropScope", "reorder", "resum", "shift", "renumber"}
           \/ r.op = "getOrCreateDraft"
              /\ r.at \in {"openDraft", "createDraft", "addScopes"}
           \/ r.op = "updateLine" /\ r.at \in {"saveHeader", "saveScopes"}

Adding(c) ==
    req[c].op = "addSpace" =>
        /\ req[c].space \in Spaces /\ req[c].measure \in Measures
        /\ db[SpaceKey(req[c].space)].state = "none"

\* The values updateSpace has written into the row of a scope.
Written(r, row) ==
    /\ row.area = r.measure
    /\ r.at \in {"amount", "subtotal", "sum", "totals"} => row.quantity = r.measure
    /\ r.at \in {"subtotal", "sum", "totals"} => row.amount = r.measure
    /\ r.at \in {"sum", "totals"} => row.subtotal = r.measure

\* updateSpace holds its space from the first statement on, so that nobody can
\* drop the scope it has found; and what it has written so far is of the new
\* measure if the version still is the draft.
Updating(c) ==
    LET r == req[c]
        s == r.space
    IN  r.op = "updateSpace" =>
        /\ s \in Spaces /\ r.measure \in Measures
        /\ r.at \notin {"state", "row"} =>
              /\ Holds(c, SpaceKey(s)) /\ tx[c][SpaceKey(s)].state = "live"
        /\ r.at \in {"findDraft", "area"} =>
              \A v \in Versions : ~Holds(c, ScopeKey(v, s))
        /\ r.at = "area" /\ r.scopeOf # 0 => db[ScopeKey(r.scopeOf, s)] # NoScope
        /\ r.at \in {"quantity", "amount", "subtotal", "sum", "totals"}
              /\ r.scopeOf # 0 =>
              /\ Holds(c, ScopeKey(r.scopeOf, s))
              /\ Drafted(r.scopeOf) => Written(r, tx[c][ScopeKey(r.scopeOf, s)])
        /\ r.at = "totals" =>
              \A v \in Versions : Drafted(v) /\ Holds(c, ScopeKey(v, s)) =>
                  /\ v = r.version
                  /\ r.known[s] = tx[c][ScopeKey(v, s)].subtotal

\* deleteSpace holds the header of the draft from LockHeader on, and has given
\* it a new revision before it writes the orders of the spaces.
Removing(c) ==
    LET r == req[c]
    IN  r.op = "deleteSpace" =>
        /\ r.space \in Spaces
        /\ db[SpaceKey(r.space)].state # "none"
        /\ r.at \notin {"state", "findHeader", "lockHeader"} /\ r.version # 0 =>
              Holds(c, HeaderKey(r.version))
        /\ r.at \in {"dropScope", "reorder", "resum", "shift", "renumber"} =>
              Sees(c, SpaceKey(r.space)).state = "deleted"
        /\ r.at \in {"dropScope", "reorder", "resum"} => r.version # 0
        /\ r.at \in {"shift", "renumber"} /\ r.version # 0 =>
              tx[c][HeaderKey(r.version)].revision
                > db[HeaderKey(r.version)].revision

\* updateLine knows the scopes of its version while the revision is the one it
\* has read.
Saving(c) ==
    LET r == req[c]
        v == r.version
    IN  /\ r.op = "getOrCreateDraft" /\ r.at = "addScopes" => v # 0
        /\ r.op = "updateLine" =>
           /\ v # 0 /\ Exists(v)
           /\ Drafted(v) => db[HeaderKey(v)].revision >= r.revision
           /\ Drafted(v) /\ db[HeaderKey(v)].revision = r.revision =>
                 \A s \in Spaces :
                     r.known[s] # None <=> db[ScopeKey(v, s)] # NoScope
           /\ r.at = "saveScopes" =>
                 /\ Holds(c, HeaderKey(v))
                 /\ db[HeaderKey(v)].revision = r.revision
                 /\ tx[c][HeaderKey(v)].revision > r.revision

\* A transaction, with what it has read and written.
Sound(c) ==
    /\ req[c] \in Request
    /\ sent[c] \in 0..MaxRequests[c]
    /\ DOMAIN tx[c] \subseteq Keys
    /\ SpacesHeld(c) /\ HeadersHeld(c) /\ ScopesHeld(c)
    /\ Stands(c) /\ Adding(c) /\ Updating(c) /\ Removing(c) /\ Saving(c)

Domains == DOMAIN tx = Clients /\ DOMAIN req = Clients /\ DOMAIN sent = Clients

\* The inductive invariant.
IInv ==
    /\ RowsTyped /\ Chain
    /\ Domains /\ LocksDisjoint /\ AddersApart
    /\ \A c \in Clients : Sound(c)

\* What a commit may do to rows that nobody else has locked.
Evolves ==
    /\ \A s \in Spaces :
          /\ db[SpaceKey(s)].state # "none" => db'[SpaceKey(s)].state # "none"
          /\ db[SpaceKey(s)].state = "deleted" => db'[SpaceKey(s)].state = "deleted"
    /\ \A v \in Versions :
          /\ Exists(v) => db'[HeaderKey(v)].status # "none"
          /\ Exists(v) /\ ~Drafted(v) => ~IsDraftIn(db'[HeaderKey(v)])
          /\ Drafted(v) /\ IsDraftIn(db'[HeaderKey(v)]) =>
                /\ db'[HeaderKey(v)].revision >= db[HeaderKey(v)].revision
                /\ (\E s \in Spaces : db'[ScopeKey(v, s)] # db[ScopeKey(v, s)])
                     => db'[HeaderKey(v)].revision > db[HeaderKey(v)].revision
          /\ db[HeaderKey(v)].status = "QUOTED" =>
                /\ db'[HeaderKey(v)].totals = db[HeaderKey(v)].totals
                /\ db'[HeaderKey(v)].status = "QUOTED"
                /\ \A s \in Spaces : db'[ScopeKey(v, s)] = NoScope <=>
                                        db[ScopeKey(v, s)] = NoScope
    /\ \A v \in Versions, s \in Spaces :
          db[ScopeKey(v, s)] # NoScope /\ db'[ScopeKey(v, s)] = NoScope =>
              db'[SpaceKey(s)].state = "deleted"

\* What another transaction leaves to c.
Undisturbed(c) ==
    /\ tx'[c] = tx[c] /\ req'[c] = req[c] /\ sent'[c] = sent[c]
    /\ \A k \in DOMAIN tx[c] : db'[k] = db[k]
    /\ req[c].op = "addSpace" =>
          db'[SpaceKey(req[c].space)] = db[SpaceKey(req[c].space)]

-----------------------------------------------------------------------------
(* Keys and rows.                                                          *)

LEMMA KeysDiffer ==
    /\ \A s, t \in Spaces : SpaceKey(s) = SpaceKey(t) => s = t
    /\ \A v, w \in Versions : HeaderKey(v) = HeaderKey(w) => v = w
    /\ \A v, w \in Versions, s, t \in Spaces :
          ScopeKey(v, s) = ScopeKey(w, t) => v = w /\ s = t
    /\ \A v \in Versions, s, t \in Spaces :
          /\ SpaceKey(s) # HeaderKey(v)
          /\ SpaceKey(s) # ScopeKey(v, t)
    /\ \A v, w \in Versions, s \in Spaces : HeaderKey(v) # ScopeKey(w, s)
  BY DEF SpaceKey, HeaderKey, ScopeKey

LEMMA KeysExist ==
    /\ \A s \in Spaces : SpaceKey(s) \in Keys
    /\ \A v \in Versions : HeaderKey(v) \in Keys
    /\ \A v \in Versions, s \in Spaces : ScopeKey(v, s) \in Keys
    /\ \A k \in Keys :
          \/ \E s \in Spaces : k = SpaceKey(s)
          \/ \E v \in Versions : k = HeaderKey(v)
          \/ \E v \in Versions, s \in Spaces : k = ScopeKey(v, s)
  <1>1. \A v \in Versions, s \in Spaces : <<v, s>> \in Versions \X Spaces
    OBVIOUS
  <1>2. \A v \in Versions, s \in Spaces :
           \E p \in Versions \X Spaces : ScopeKey(v, s) = ScopeKey(p[1], p[2])
    <2> TAKE v \in Versions, s \in Spaces
    <2> WITNESS <<v, s>> \in Versions \X Spaces
    <2> QED
      OBVIOUS
  <1>3. \A p \in Versions \X Spaces : p[1] \in Versions /\ p[2] \in Spaces
    OBVIOUS
  <1> QED
    BY <1>2, <1>3 DEF Keys

-----------------------------------------------------------------------------
(* What a commit leaves to the other transactions.                         *)

\* The held rows of the others are as they were.
LEMMA HeldStaysHeld ==
    ASSUME IInv, NEW c \in Clients, Evolves, Undisturbed(c)
    PROVE  SpacesHeld(c)' /\ HeadersHeld(c)' /\ ScopesHeld(c)'
  <1> USE DEF IInv, Sound, Undisturbed, Holds
  <1>1. SpacesHeld(c)'
    BY DEF SpacesHeld
  <1>2. HeadersHeld(c)'
    BY DEF HeadersHeld, Drafted
  <1>3. ScopesHeld(c)'
    BY DEF ScopesHeld
  <1> QED
    BY <1>1, <1>2, <1>3

\* A scope exists only in a version that does.
LEMMA ScopeOfVersion ==
    ASSUME Chain, NEW v \in Versions, NEW s \in Spaces,
           db[ScopeKey(v, s)] # NoScope
    PROVE  Exists(v)
  BY DEF Chain

LEMMA UpdatingStays ==
    ASSUME IInv, NEW c \in Clients, Evolves, Undisturbed(c)
    PROVE  Updating(c)'
  <1> DEFINE r == req[c]
             s == req[c].space
  <1> SUFFICES ASSUME r.op = "updateSpace"
               PROVE  Updating(c)'
    BY DEF Updating, Undisturbed
  <1>1. Updating(c) /\ SpacesHeld(c) /\ ScopesHeld(c) /\ r \in Request /\ Chain
    BY DEF IInv, Sound
  <1>2. s \in Spaces /\ r.measure \in Measures
    BY <1>1 DEF Updating
  <1>3. r.scopeOf \in Versions \cup {0} /\ r.version \in Versions \cup {0}
    BY <1>1 DEF Request
  <1>4. req'[c] = r /\ tx'[c] = tx[c]
    BY DEF Undisturbed
  <1>5. \A v \in Versions :
           ScopeKey(v, s) \in DOMAIN tx[c] /\ IsDraftIn(db'[HeaderKey(v)]) => Drafted(v)
    <2> SUFFICES ASSUME NEW v \in Versions, ScopeKey(v, s) \in DOMAIN tx[c],
                        IsDraftIn(db'[HeaderKey(v)])
                 PROVE  Drafted(v)
      OBVIOUS
    <2>1. Exists(v)
      BY <1>1, <1>2, ScopeOfVersion DEF ScopesHeld, Holds
    <2> QED
      BY <2>1 DEF Evolves
  <1>6. r.at = "area" /\ r.scopeOf # 0 => db'[ScopeKey(r.scopeOf, s)] # NoScope
    <2> SUFFICES ASSUME r.at = "area", r.scopeOf # 0
                 PROVE  db'[ScopeKey(r.scopeOf, s)] # NoScope
      OBVIOUS
    <2>1. db[ScopeKey(r.scopeOf, s)] # NoScope /\ r.scopeOf \in Versions
      BY <1>1, <1>3 DEF Updating
    <2>2. Holds(c, SpaceKey(s))
      BY <1>1 DEF Updating
    <2>3. db'[SpaceKey(s)].state = "live"
      BY <1>1, <1>2, <2>2 DEF SpacesHeld, Undisturbed, Holds
    <2> QED
      BY <2>1, <2>3, <1>2 DEF Evolves
  <1>7. r.at \in {"quantity", "amount", "subtotal", "sum", "totals"} /\ r.scopeOf # 0 =>
           /\ ScopeKey(r.scopeOf, s) \in DOMAIN tx[c]
           /\ IsDraftIn(db'[HeaderKey(r.scopeOf)]) =>
                 Written(r, tx[c][ScopeKey(r.scopeOf, s)])
    BY <1>1, <1>3, <1>5 DEF Updating, Holds, Drafted
  <1>8. r.at = "totals" =>
            \A v \in Versions :
                IsDraftIn(db'[HeaderKey(v)]) /\ ScopeKey(v, s) \in DOMAIN tx[c] =>
                    v = r.version /\ r.known[s] = tx[c][ScopeKey(v, s)].subtotal
    BY <1>1, <1>5 DEF Updating, Holds
  <1> QED
    BY <1>1, <1>4, <1>6, <1>7, <1>8 DEF Updating, Holds, Drafted

LEMMA RemovingStays ==
    ASSUME IInv, NEW c \in Clients, Evolves, Undisturbed(c)
    PROVE  Removing(c)'
  <1> DEFINE r == req[c]
  <1> SUFFICES ASSUME r.op = "deleteSpace"
               PROVE  Removing(c)'
    BY DEF Removing, Undisturbed
  <1>1. Removing(c) /\ r \in Request
    BY DEF IInv, Sound
  <1>2. r.space \in Spaces /\ db'[SpaceKey(r.space)].state # "none"
    BY <1>1 DEF Removing, Evolves
  <1>3. req'[c] = r /\ tx'[c] = tx[c] /\ \A k \in DOMAIN tx[c] : db'[k] = db[k]
    BY DEF Undisturbed
  <1>4. r.at \in {"shift", "renumber"} /\ r.version # 0 =>
           tx[c][HeaderKey(r.version)].revision > db'[HeaderKey(r.version)].revision
    BY <1>1, <1>3 DEF Removing, Holds
  <1>5. db[SpaceKey(r.space)].state = "deleted" => db'[SpaceKey(r.space)].state = "deleted"
    BY <1>2 DEF Evolves
  <1> QED
    BY <1>1, <1>2, <1>3, <1>4, <1>5 DEF Removing, Holds, Sees

LEMMA SavingStays ==
    ASSUME IInv, NEW c \in Clients, Evolves, Undisturbed(c), RowsTyped'
    PROVE  Saving(c)'
  <1> DEFINE r == req[c]
             v == req[c].version
  <1>1. Saving(c) /\ r \in Request /\ RowsTyped
    BY DEF IInv, Sound
  <1>2. req'[c] = r /\ tx'[c] = tx[c] /\ \A k \in DOMAIN tx[c] : db'[k] = db[k]
    BY DEF Undisturbed
  <1>3. CASE r.op = "updateLine"
    <2>1. v \in Versions /\ v # 0 /\ Exists(v)
      BY <1>1, <1>3 DEF Saving, Request
    <2>2. /\ db'[HeaderKey(v)].status # "none"
          /\ IsDraftIn(db'[HeaderKey(v)]) => Drafted(v)
      BY <2>1 DEF Evolves
    <2>3. /\ r.revision \in Nat /\ db[HeaderKey(v)].revision \in Nat
          /\ db'[HeaderKey(v)].revision \in Nat
      BY <1>1, <2>1 DEF RowsTyped, Request, HeaderRow
    <2>4. IsDraftIn(db'[HeaderKey(v)]) =>
             /\ db'[HeaderKey(v)].revision >= db[HeaderKey(v)].revision
             /\ (\E s \in Spaces : db'[ScopeKey(v, s)] # db[ScopeKey(v, s)])
                  => db'[HeaderKey(v)].revision > db[HeaderKey(v)].revision
      BY <2>1, <2>2 DEF Evolves
    <2>5. Drafted(v) => db[HeaderKey(v)].revision >= r.revision
      BY <1>1, <1>3 DEF Saving
    <2>6. IsDraftIn(db'[HeaderKey(v)]) => db'[HeaderKey(v)].revision >= r.revision
      BY <2>2, <2>3, <2>4, <2>5
    <2>7. IsDraftIn(db'[HeaderKey(v)]) /\ db'[HeaderKey(v)].revision = r.revision =>
             \A s \in Spaces : r.known[s] # None <=> db'[ScopeKey(v, s)] # NoScope
      <3> SUFFICES ASSUME IsDraftIn(db'[HeaderKey(v)]),
                          db'[HeaderKey(v)].revision = r.revision
                   PROVE  \A s \in Spaces :
                             r.known[s] # None <=> db'[ScopeKey(v, s)] # NoScope
        OBVIOUS
      <3>1. Drafted(v) /\ db[HeaderKey(v)].revision = r.revision
        BY <2>2, <2>3, <2>4, <2>5
      <3>2. \A s \in Spaces : db'[ScopeKey(v, s)] = db[ScopeKey(v, s)]
        BY <2>3, <2>4, <3>1
      <3> QED
        BY <3>1, <3>2, <1>1, <1>3 DEF Saving
    <2>8. r.at = "saveScopes" =>
             /\ HeaderKey(v) \in DOMAIN tx[c]
             /\ db'[HeaderKey(v)].revision = r.revision
             /\ tx[c][HeaderKey(v)].revision > r.revision
      BY <1>1, <1>2, <1>3 DEF Saving, Holds
    <2> QED
      BY <1>2, <1>3, <2>1, <2>2, <2>6, <2>7, <2>8 DEF Saving, Holds, Exists, Drafted
  <1>4. CASE r.op # "updateLine"
    BY <1>1, <1>2, <1>4 DEF Saving
  <1> QED
    BY <1>3, <1>4

LEMMA OthersStaySound ==
    ASSUME IInv, NEW c \in Clients, Evolves, Undisturbed(c), RowsTyped'
    PROVE  Sound(c)'
  <1>1. Sound(c)
    BY DEF IInv
  <1>2. /\ req'[c] \in Request /\ sent'[c] \in 0..MaxRequests[c]
        /\ DOMAIN tx'[c] \subseteq Keys
    BY <1>1 DEF Sound, Undisturbed
  <1>3. Stands(c)' /\ Adding(c)'
    BY <1>1 DEF Sound, Undisturbed, Stands, Adding
  <1> QED
    BY <1>2, <1>3, HeldStaysHeld, UpdatingStays, RemovingStays, SavingStays DEF Sound

-----------------------------------------------------------------------------
(* The end of a transaction.                                               *)

\* Only c has sent something, within its bound.
SentBy(c) ==
    /\ DOMAIN sent' = Clients
    /\ sent'[c] \in 0..MaxRequests[c]
    /\ \A d \in Clients \ {c} : sent'[d] = sent[d]

LEMMA UnsentBy == ASSUME IInv, NEW c \in Clients, UNCHANGED sent PROVE SentBy(c)
  BY DEF SentBy, IInv, Domains, Sound

LEMMA SendingBy ==
    ASSUME IInv, NEW c \in Clients, NEW op, Sending(c, op)
    PROVE  SentBy(c)
  <1>1. /\ DOMAIN sent = Clients /\ sent[c] \in 0..MaxRequests[c]
        /\ MaxRequests[c] \in Nat
    BY ConstantsAssumption DEF IInv, Domains, Sound
  <1>2. sent[c] + 1 \in 0..MaxRequests[c]
    BY <1>1 DEF Sending
  <1> QED
    BY <1>1, <1>2 DEF SentBy, Sending

\* What a transaction sees has the types of the rows, and the stages of the
\* versions are those that have been committed.
LEMMA SeesTyped ==
    ASSUME IInv, NEW c \in Clients
    PROVE  /\ \A s \in Spaces : Sees(c, SpaceKey(s)) \in SpaceRow
           /\ \A v \in Versions : Sees(c, HeaderKey(v)) \in HeaderRow
           /\ \A v \in Versions, s \in Spaces :
                 Sees(c, ScopeKey(v, s)) \in ScopeRow \cup {NoScope}
  BY DEF IInv, RowsTyped, Sound, SpacesHeld, HeadersHeld, ScopesHeld, Holds, Sees

LEMMA SeesStages ==
    ASSUME IInv, NEW c \in Clients, NEW v \in Versions
    PROVE  /\ Sees(c, HeaderKey(v)).status = db[HeaderKey(v)].status
           /\ Sees(c, HeaderKey(v)).isCurrent = db[HeaderKey(v)].isCurrent
           /\ Sees(c, HeaderKey(v)).revision >= db[HeaderKey(v)].revision
           /\ ~Drafted(v) => Sees(c, HeaderKey(v)) = db[HeaderKey(v)]
  <1>1. CASE HeaderKey(v) \in DOMAIN tx[c]
    <2>1. /\ Drafted(v) /\ IsDraftIn(tx[c][HeaderKey(v)])
          /\ tx[c][HeaderKey(v)].revision >= db[HeaderKey(v)].revision
          /\ tx[c][HeaderKey(v)] \in HeaderRow /\ db[HeaderKey(v)] \in HeaderRow
      BY <1>1 DEF IInv, RowsTyped, Sound, HeadersHeld, Holds
    <2>2. Sees(c, HeaderKey(v)) = tx[c][HeaderKey(v)]
      BY <1>1 DEF Sees
    <2> QED
      BY <2>1, <2>2 DEF Drafted, IsDraftIn, HeaderRow
  <1>2. CASE HeaderKey(v) \notin DOMAIN tx[c]
    <2>1. db[HeaderKey(v)].revision \in Nat
      BY DEF IInv, RowsTyped, HeaderRow
    <2> QED
      BY <1>2, <2>1 DEF Sees
  <1> QED
    BY <1>1, <1>2

LEMMA SeesDraft ==
    ASSUME IInv, NEW c \in Clients, NEW v \in Versions
    PROVE  IsDraft(c, v) <=> Drafted(v)
  BY SeesStages, 0 \notin Versions DEF IsDraft, Drafted, IsDraftIn, Versions

\* A scope that a transaction sees is one of the database; the reverse holds
\* but for the scope that deleteSpace drops.
LEMMA SeesScopes ==
    ASSUME IInv, NEW c \in Clients, NEW v \in Versions, NEW s \in Spaces
    PROVE  /\ Sees(c, ScopeKey(v, s)) # NoScope => db[ScopeKey(v, s)] # NoScope
           /\ req[c].op # "deleteSpace" /\ db[ScopeKey(v, s)] # NoScope
                => Sees(c, ScopeKey(v, s)) # NoScope
  BY DEF IInv, Sound, ScopesHeld, Holds, Sees

LEMMA CommittedRows ==
    ASSUME IInv, NEW c \in Clients, NEW rows, DOMAIN rows \subseteq Keys,
           Commits(c, rows)
    PROVE  /\ DOMAIN db' = Keys
           /\ \A k \in Keys :
                 db'[k] = IF k \in DOMAIN rows THEN rows[k] ELSE Sees(c, k)
  <1>1. DOMAIN tx[c] \subseteq Keys /\ DOMAIN db = Keys
    BY DEF IInv, Sound, RowsTyped
  <1> QED
    BY <1>1 DEF Commits, Answered, Over, Sees

LEMMA NothingHeldAnswered ==
    ASSUME IInv, NEW c \in Clients, NEW rows, Answered(c, rows)
    PROVE  /\ DOMAIN tx' = Clients /\ DOMAIN req' = Clients
           /\ DOMAIN tx'[c] = {} /\ req'[c] = NoRequest
           /\ \A d \in Clients \ {c} : tx'[d] = tx[d] /\ req'[d] = req[d]
  BY DEF Answered, IInv, Domains

\* A request that has been answered leaves nothing behind.
LEMMA AnsweredSound ==
    ASSUME IInv, NEW c \in Clients, NEW rows, Answered(c, rows), SentBy(c)
    PROVE  /\ Domains' /\ LocksDisjoint' /\ AddersApart'
           /\ Sound(c)'
  <1>1. /\ DOMAIN tx' = Clients /\ DOMAIN req' = Clients
        /\ DOMAIN tx'[c] = {} /\ req'[c] = NoRequest
        /\ \A d \in Clients \ {c} : tx'[d] = tx[d] /\ req'[d] = req[d]
    BY NothingHeldAnswered
  <1>2. Domains' /\ LocksDisjoint'
    BY <1>1 DEF IInv, Domains, LocksDisjoint, SentBy
  <1>3. NoRequest \in Request
    BY DEF NoRequest, Request, Measured, Nothing, Steps
  <1>4. NoRequest.op = "none" /\ NoRequest.at = "idle"
    BY DEF NoRequest
  <1>5. AddersApart'
    BY <1>1, <1>4 DEF IInv, AddersApart
  <1>6. SpacesHeld(c)' /\ HeadersHeld(c)' /\ ScopesHeld(c)'
    BY <1>1 DEF SpacesHeld, HeadersHeld, ScopesHeld, Holds
  <1>7. Stands(c)' /\ Adding(c)' /\ Updating(c)' /\ Removing(c)' /\ Saving(c)'
    BY <1>1, <1>4 DEF Stands, Adding, Updating, Removing, Saving
  <1> QED
    BY <1>1, <1>2, <1>3, <1>5, <1>6, <1>7 DEF Sound, SentBy

LEMMA RollbackKeepsInvariant ==
    ASSUME IInv, NEW c \in Clients, RolledBack(c), SentBy(c)
    PROVE  IInv' /\ Evolves /\ \A k \in Keys : db'[k] = db[k]
  <1>1. DOMAIN db = Keys
    BY DEF IInv, RowsTyped
  <1>2. DOMAIN db' = Keys /\ \A k \in Keys : db'[k] = db[k]
    BY <1>1 DEF RolledBack, Answered, Over
  <1>3. RowsTyped' /\ Chain'
    BY <1>2, KeysExist DEF IInv, RowsTyped, Chain, Exists
  <1>4. Evolves
    BY <1>2, KeysExist DEF IInv, RowsTyped, Evolves, Drafted, Exists, HeaderRow
  <1>5. Domains' /\ LocksDisjoint' /\ AddersApart' /\ Sound(c)'
    BY AnsweredSound DEF RolledBack
  <1>6. ASSUME NEW d \in Clients, d # c
        PROVE  Sound(d)'
    <2>1. Undisturbed(d)
      <3>1. /\ DOMAIN tx[d] \subseteq Keys
            /\ req[d].op = "addSpace" => req[d].space \in Spaces
        BY DEF IInv, Sound, Adding
      <3> QED
        BY <1>2, <1>6, <3>1, KeysExist, NothingHeldAnswered
        DEF Undisturbed, RolledBack, SentBy
    <2> QED
      BY <1>3, <1>4, <2>1, OthersStaySound
  <1> QED
    BY <1>2, <1>3, <1>4, <1>5, <1>6 DEF IInv

LEMMA CommitKeepsInvariant ==
    ASSUME IInv, NEW c \in Clients, NEW rows, Commits(c, rows), SentBy(c),
           DOMAIN rows \subseteq Keys,
           \A d \in Clients \ {c} :
              /\ DOMAIN rows \cap DOMAIN tx[d] = {}
              /\ req[d].op = "addSpace" => SpaceKey(req[d].space) \notin DOMAIN rows,
           RowsTyped', Chain', Evolves
    PROVE  IInv'
  <1>1. Domains' /\ LocksDisjoint' /\ AddersApart' /\ Sound(c)'
    BY AnsweredSound DEF Commits
  <1>2. ASSUME NEW d \in Clients, d # c
        PROVE  Sound(d)'
    <2>1. /\ DOMAIN tx[d] \subseteq Keys /\ DOMAIN tx[d] \cap DOMAIN tx[c] = {}
          /\ DOMAIN tx[d] \cap DOMAIN rows = {}
      BY <1>2 DEF IInv, Sound, LocksDisjoint
    <2>2. \A k \in DOMAIN tx[d] : db'[k] = db[k]
      BY <2>1, CommittedRows DEF Sees
    <2>3. ASSUME req[d].op = "addSpace"
          PROVE  db'[SpaceKey(req[d].space)] = db[SpaceKey(req[d].space)]
      <3>1. req[d].space \in Spaces /\ db[SpaceKey(req[d].space)].state = "none"
        BY <2>3 DEF IInv, Sound, Adding
      <3>2. SpaceKey(req[d].space) \notin DOMAIN tx[c]
        BY <3>1 DEF IInv, Sound, SpacesHeld, Holds
      <3> QED
        BY <1>2, <2>3, <3>1, <3>2, KeysExist, CommittedRows DEF Sees
    <2>4. Undisturbed(d)
      BY <1>2, <2>2, <2>3, NothingHeldAnswered DEF Undisturbed, Commits, SentBy
    <2> QED
      BY <2>4, OthersStaySound
  <1> QED
    BY <1>1, <1>2 DEF IInv

-----------------------------------------------------------------------------
(* The commits.                                                            *)

LEMMA SpacesCounted ==
    ASSUME NEW S \in SUBSET Spaces
    PROVE  Cardinality(S) \in Nat
  BY ConstantsAssumption, FS_Subset, FS_CardinalityType

\* As long as no version changes its stage, they still follow one another.
LEMMA SameStages ==
    ASSUME Chain,
           \A v \in Versions :
              /\ db'[HeaderKey(v)].status = db[HeaderKey(v)].status
              /\ db'[HeaderKey(v)].isCurrent = db[HeaderKey(v)].isCurrent
              /\ ~Exists(v) => \A s \in Spaces :
                    db'[ScopeKey(v, s)] = db[ScopeKey(v, s)]
    PROVE  Chain'
  BY DEF Chain, Exists

LEMMA TotalledRow ==
    ASSUME NEW row \in HeaderRow, NEW sums \in Measured
    PROVE  /\ Totalled(row, sums) \in HeaderRow
           /\ Totalled(row, sums).status = row.status
           /\ Totalled(row, sums).isCurrent = row.isCurrent
           /\ Totalled(row, sums).totals = sums
           /\ Totalled(row, sums).revision = row.revision + 1
           /\ row.revision \in Nat
  <1>1. row.revision \in Nat
    BY DEF HeaderRow
  <1>2. /\ Totalled(row, sums).status = row.status
        /\ Totalled(row, sums).totals = sums
        /\ Totalled(row, sums).revision = row.revision + 1
    BY DEF Totalled, HeaderRow
  <1>3. Totalled(row, sums).isCurrent = row.isCurrent
    BY DEF Totalled, HeaderRow
  <1>4. Totalled(row, sums) \in HeaderRow
    <2> DEFINE summed == [row EXCEPT !.totals = sums]
    <2>1. summed \in HeaderRow
      BY DEF HeaderRow
    <2>2. Totalled(row, sums) = [summed EXCEPT !.revision = row.revision + 1]
      BY DEF Totalled, HeaderRow
    <2> HIDE DEF summed
    <2> QED
      BY <1>1, <2>1, <2>2 DEF HeaderRow
  <1> QED
    BY <1>1, <1>2, <1>3, <1>4

\* Enough for Evolves when versions keep their stages and scopes stay.
LEMMA EvolvesInStage ==
    ASSUME RowsTyped,
           \A s \in Spaces :
              db[SpaceKey(s)].state # "none" =>
                  db'[SpaceKey(s)].state = db[SpaceKey(s)].state,
           \A v \in Versions :
              \/ /\ db'[HeaderKey(v)] = db[HeaderKey(v)]
                 /\ Drafted(v) => \A s \in Spaces :
                        db'[ScopeKey(v, s)] = db[ScopeKey(v, s)]
              \/ /\ Drafted(v)
                 /\ IsDraftIn(db'[HeaderKey(v)])
                 /\ db'[HeaderKey(v)].revision > db[HeaderKey(v)].revision
                 /\ db'[HeaderKey(v)].revision \in Nat
              \/ /\ ~Drafted(v)
                 /\ db'[HeaderKey(v)].status = db[HeaderKey(v)].status
                 /\ db'[HeaderKey(v)].isCurrent = db[HeaderKey(v)].isCurrent
                 /\ db'[HeaderKey(v)].totals = db[HeaderKey(v)].totals,
           \A v \in Versions, s \in Spaces :
              /\ db[ScopeKey(v, s)] # NoScope => db'[ScopeKey(v, s)] # NoScope
              /\ ~Drafted(v) /\ db[ScopeKey(v, s)] = NoScope =>
                    db'[ScopeKey(v, s)] = NoScope
    PROVE  Evolves
  <1>1. \A v \in Versions : db[HeaderKey(v)].revision \in Nat
    BY DEF RowsTyped, HeaderRow
  <1>2. \A s \in Spaces :
          /\ db[SpaceKey(s)].state # "none" => db'[SpaceKey(s)].state # "none"
          /\ db[SpaceKey(s)].state = "deleted" => db'[SpaceKey(s)].state = "deleted"
    OBVIOUS
  <1>3. ASSUME NEW v \in Versions
        PROVE  /\ Exists(v) => db'[HeaderKey(v)].status # "none"
               /\ Exists(v) /\ ~Drafted(v) => ~IsDraftIn(db'[HeaderKey(v)])
               /\ Drafted(v) /\ IsDraftIn(db'[HeaderKey(v)]) =>
                     /\ db'[HeaderKey(v)].revision >= db[HeaderKey(v)].revision
                     /\ (\E s \in Spaces : db'[ScopeKey(v, s)] # db[ScopeKey(v, s)])
                          => db'[HeaderKey(v)].revision > db[HeaderKey(v)].revision
               /\ db[HeaderKey(v)].status = "QUOTED" =>
                     /\ db'[HeaderKey(v)].totals = db[HeaderKey(v)].totals
                     /\ db'[HeaderKey(v)].status = "QUOTED"
                     /\ \A s \in Spaces : db'[ScopeKey(v, s)] = NoScope <=>
                                             db[ScopeKey(v, s)] = NoScope
    <2>1. CASE /\ db'[HeaderKey(v)] = db[HeaderKey(v)]
               /\ Drafted(v) => \A s \in Spaces :
                        db'[ScopeKey(v, s)] = db[ScopeKey(v, s)]
      BY <1>1, <2>1 DEF Exists, Drafted, IsDraftIn
    <2>2. CASE /\ Drafted(v)
               /\ IsDraftIn(db'[HeaderKey(v)])
               /\ db'[HeaderKey(v)].revision > db[HeaderKey(v)].revision
               /\ db'[HeaderKey(v)].revision \in Nat
      BY <1>1, <2>2 DEF Exists, Drafted, IsDraftIn
    <2>3. CASE /\ ~Drafted(v)
               /\ db'[HeaderKey(v)].status = db[HeaderKey(v)].status
               /\ db'[HeaderKey(v)].isCurrent = db[HeaderKey(v)].isCurrent
               /\ db'[HeaderKey(v)].totals = db[HeaderKey(v)].totals
      BY <2>3 DEF Exists, Drafted, IsDraftIn
    <2> QED
      BY <2>1, <2>2, <2>3
  <1> QED
    BY <1>2, <1>3 DEF Evolves

LEMMA AddSpaceKeeps ==
    ASSUME IInv, NEW c \in Clients, AddSpace(c)
    PROVE  IInv' /\ Evolves
  <1> DEFINE s == req[c].space
             row == [state |-> "live", measure |-> req[c].measure,
                     order |-> KnownLength(c)]
  <1>1. SentBy(c)
    BY UnsentBy DEF AddSpace, Runs
  <1>2. CASE RolledBack(c)
    BY <1>1, <1>2, RollbackKeepsInvariant
  <1>3. CASE Commits(c, Row(SpaceKey(s), row))
    <2>1. /\ req[c].op = "addSpace" /\ DOMAIN tx[c] = {}
          /\ s \in Spaces /\ req[c].measure \in Measures
          /\ db[SpaceKey(s)].state = "none"
      BY DEF AddSpace, Runs, IInv, Sound, Stands, BeforeWriting, Adding
    <2>2. row \in SpaceRow
      BY <2>1, SpacesCounted DEF SpaceRow, KnownLength
    <2>3. DOMAIN Row(SpaceKey(s), row) = {SpaceKey(s)}
          /\ Row(SpaceKey(s), row)[SpaceKey(s)] = row
      BY DEF Row
    <2> HIDE DEF row
    <2>4. DOMAIN Row(SpaceKey(s), row) \subseteq Keys
      BY <2>1, <2>3, KeysExist
    <2>5. DOMAIN db' = Keys
          /\ \A k \in Keys : db'[k] = IF k = SpaceKey(s) THEN row ELSE db[k]
      <3> HIDE DEF s
      <3> QED
        BY <1>3, <2>1, <2>3, <2>4, CommittedRows DEF Sees
    <2>6. /\ db'[SpaceKey(s)] = row
          /\ \A t \in Spaces : t # s => db'[SpaceKey(t)] = db[SpaceKey(t)]
          /\ \A v \in Versions : db'[HeaderKey(v)] = db[HeaderKey(v)]
          /\ \A v \in Versions, t \in Spaces : db'[ScopeKey(v, t)] = db[ScopeKey(v, t)]
      BY <2>1, <2>5, KeysExist, KeysDiffer
    <2>7. RowsTyped'
      BY <2>2, <2>5, <2>6 DEF IInv, RowsTyped
    <2>8. Chain'
      BY <2>6, SameStages DEF IInv
    <2>9. Evolves
      BY <2>1, <2>6, EvolvesInStage DEF IInv
    <2>10. ASSUME NEW d \in Clients \ {c}
           PROVE  /\ DOMAIN Row(SpaceKey(s), row) \cap DOMAIN tx[d] = {}
                  /\ req[d].op = "addSpace" =>
                        SpaceKey(req[d].space) \notin DOMAIN Row(SpaceKey(s), row)
      <3>1. SpaceKey(s) \notin DOMAIN tx[d]
        BY <2>1 DEF IInv, Sound, SpacesHeld, Holds
      <3>2. req[d].op = "addSpace" => req[d].space \in Spaces /\ req[d].space # s
        BY <2>1 DEF IInv, Sound, Adding, AddersApart
      <3> QED
        BY <2>1, <2>3, <3>1, <3>2, KeysDiffer
    <2> HIDE DEF s
    <2> QED
      BY <1>1, <1>3, <2>4, <2>7, <2>8, <2>9, <2>10, CommitKeepsInvariant
  <1> QED
    BY <1>2, <1>3 DEF AddSpace

LEMMA UpdateTotalsKeeps ==
    ASSUME IInv, NEW c \in Clients, UpdateTotals(c)
    PROVE  IInv' /\ Evolves
  <1> DEFINE w == req[c].version
             s == req[c].space
             row == Totalled(Sees(c, HeaderKey(w)), req[c].known)
  <1>1. SentBy(c)
    BY UnsentBy DEF UpdateTotals, Runs
  <1>2. /\ req[c].op = "updateSpace" /\ req[c].at = "totals"
        /\ req[c] \in Request /\ SpacesHeld(c) /\ HeadersHeld(c) /\ ScopesHeld(c)
        /\ Updating(c) /\ RowsTyped /\ Chain
    BY DEF UpdateTotals, Runs, IInv, Sound
  <1>3. /\ w \in Versions \cup {0} /\ req[c].known \in Measured /\ s \in Spaces
    BY <1>2 DEF Request, Updating
  <1>4. \A v \in Versions : HeaderKey(v) \notin DOMAIN tx[c]
    BY <1>2 DEF HeadersHeld, Holds
  <1>5. \A v \in Versions : Sees(c, HeaderKey(v)) = db[HeaderKey(v)]
    BY <1>4 DEF Sees
  <1>6. \A t \in Spaces :
           /\ Sees(c, SpaceKey(t)) \in SpaceRow
           /\ Sees(c, SpaceKey(t)).state = db[SpaceKey(t)].state
    BY <1>2, SeesTyped DEF SpacesHeld, Sees, Holds
  <1>7. \A v \in Versions, t \in Spaces :
           /\ Sees(c, ScopeKey(v, t)) \in ScopeRow \cup {NoScope}
           /\ Sees(c, ScopeKey(v, t)) = NoScope <=> db[ScopeKey(v, t)] = NoScope
           /\ Sees(c, ScopeKey(v, t)) # db[ScopeKey(v, t)] /\ Drafted(v) => v = w
    BY <1>2, SeesTyped DEF ScopesHeld, Updating, Sees, Holds
  <1>8. CASE w = 0 /\ Commits(c, <<>>)
    <2>1. DOMAIN <<>> = {}
      OBVIOUS
    <2>2. DOMAIN db' = Keys /\ \A k \in Keys : db'[k] = Sees(c, k)
      BY <1>8, <2>1, CommittedRows
    <2>3. RowsTyped'
      BY <1>2, <1>5, <1>6, <1>7, <2>2, KeysExist DEF RowsTyped
    <2>4. Chain'
      BY <1>2, <1>5, <1>7, <2>2, KeysExist, SameStages DEF Chain
    <2>5. \A v \in Versions : Drafted(v) => v # w
      BY <1>8 DEF Versions
    <2>6. Evolves
      BY <1>2, <1>5, <1>6, <1>7, <2>2, <2>5, KeysExist, EvolvesInStage
    <2> QED
      BY <1>1, <1>8, <2>1, <2>3, <2>4, <2>6, CommitKeepsInvariant
  <1>9. CASE /\ w # 0 /\ SnapshotGuard(Sees(c, HeaderKey(w)), row)
             /\ Commits(c, Row(HeaderKey(w), row))
    <2>1. w \in Versions
      BY <1>3, <1>9
    <2>2. /\ row \in HeaderRow /\ row.status = db[HeaderKey(w)].status
          /\ row.isCurrent = db[HeaderKey(w)].isCurrent
          /\ row.revision = db[HeaderKey(w)].revision + 1
          /\ db[HeaderKey(w)].revision \in Nat
          /\ db[HeaderKey(w)].status = "DRAFT" \/ row.totals = db[HeaderKey(w)].totals
      BY <1>2, <1>3, <1>5, <1>9, <2>1, TotalledRow DEF RowsTyped, SnapshotGuard
    <2>3. DOMAIN Row(HeaderKey(w), row) = {HeaderKey(w)}
          /\ Row(HeaderKey(w), row)[HeaderKey(w)] = row
      BY DEF Row
    <2> HIDE DEF row, w
    <2>4. DOMAIN Row(HeaderKey(w), row) \subseteq Keys
      BY <2>1, <2>3, KeysExist
    <2>5. DOMAIN db' = Keys
          /\ \A k \in Keys : db'[k] = IF k = HeaderKey(w) THEN row ELSE Sees(c, k)
      BY <1>9, <2>3, <2>4, CommittedRows
    <2>6. /\ \A t \in Spaces : db'[SpaceKey(t)] = Sees(c, SpaceKey(t))
          /\ \A v \in Versions : v # w => db'[HeaderKey(v)] = db[HeaderKey(v)]
          /\ db'[HeaderKey(w)] = row
          /\ \A v \in Versions, t \in Spaces :
                db'[ScopeKey(v, t)] = Sees(c, ScopeKey(v, t))
      BY <1>5, <2>1, <2>5, KeysExist, KeysDiffer
    <2>7. RowsTyped'
      BY <1>2, <1>6, <1>7, <2>2, <2>5, <2>6 DEF RowsTyped
    <2>8. Chain'
      BY <1>2, <1>7, <2>2, <2>6, SameStages DEF Chain
    <2>9. Evolves
      <3>1. /\ row.revision > db[HeaderKey(w)].revision
            /\ row.revision \in Nat
        BY <2>2
      <3>2. Drafted(w) => IsDraftIn(row)
        BY <2>2 DEF Drafted, IsDraftIn
      <3>3. ~Drafted(w) => row.totals = db[HeaderKey(w)].totals
        BY <1>2, <2>1, <2>2 DEF Drafted, IsDraftIn, Chain
      <3>4. ASSUME NEW v \in Versions
            PROVE  \/ /\ db'[HeaderKey(v)] = db[HeaderKey(v)]
                      /\ Drafted(v) => \A t \in Spaces :
                             db'[ScopeKey(v, t)] = db[ScopeKey(v, t)]
                   \/ /\ Drafted(v)
                      /\ IsDraftIn(db'[HeaderKey(v)])
                      /\ db'[HeaderKey(v)].revision > db[HeaderKey(v)].revision
                      /\ db'[HeaderKey(v)].revision \in Nat
                   \/ /\ ~Drafted(v)
                      /\ db'[HeaderKey(v)].status = db[HeaderKey(v)].status
                      /\ db'[HeaderKey(v)].isCurrent = db[HeaderKey(v)].isCurrent
                      /\ db'[HeaderKey(v)].totals = db[HeaderKey(v)].totals
        <4>1. CASE v = w
          BY <2>2, <2>6, <3>1, <3>2, <3>3, <4>1
        <4>2. CASE v # w
          BY <1>7, <2>6, <4>2
        <4> QED
          BY <4>1, <4>2
      <3> QED
        BY <1>2, <1>6, <1>7, <2>6, <3>4, EvolvesInStage
    <2>10. \A d \in Clients \ {c} :
              /\ DOMAIN Row(HeaderKey(w), row) \cap DOMAIN tx[d] = {}
              /\ req[d].op = "addSpace" =>
                    SpaceKey(req[d].space) \notin DOMAIN Row(HeaderKey(w), row)
      <3>1. Wants(c) = {HeaderKey(w)}
        BY <1>2, <2>1 DEF Wants, w, Versions
      <3>2. \A d \in Clients \ {c} : HeaderKey(w) \notin DOMAIN tx[d]
        BY <3>1 DEF UpdateTotals, Runs, WaitsFor
      <3>3. \A d \in Clients : req[d].op = "addSpace" => req[d].space \in Spaces
        BY DEF IInv, Sound, Adding
      <3> QED
        BY <2>1, <2>3, <3>2, <3>3, KeysDiffer
    <2> QED
      BY <1>1, <1>9, <2>4, <2>7, <2>8, <2>9, <2>10, CommitKeepsInvariant
  <1>10. CASE RolledBack(c)
    BY <1>1, <1>10, RollbackKeepsInvariant
  <1> QED
    BY <1>8, <1>9, <1>10 DEF UpdateTotals

LEMMA ScopeRows ==
    /\ \A row \in ScopeRow : row # NoScope
    /\ \A m \in Measures : Priced(m) \in ScopeRow
    /\ \A m, n \in Measures : [Priced(m) EXCEPT !.area = n] \in ScopeRow
  BY ConstantsAssumption DEF ScopeRow, NoScope, Priced

\* A request that is not deleteSpace has the spaces and scopes of the database.
LEMMA SeesKeeps ==
    ASSUME IInv, NEW c \in Clients, req[c].op # "deleteSpace"
    PROVE  /\ \A s \in Spaces : Sees(c, SpaceKey(s)).state = db[SpaceKey(s)].state
           /\ \A v \in Versions, s \in Spaces :
                 Sees(c, ScopeKey(v, s)) # NoScope <=> db[ScopeKey(v, s)] # NoScope
  <1>1. \A s \in Spaces : Sees(c, SpaceKey(s)).state = db[SpaceKey(s)].state
    BY DEF IInv, Sound, SpacesHeld, Holds, Sees
  <1> QED
    BY <1>1, SeesScopes

LEMMA SaveScopesKeeps ==
    ASSUME IInv, NEW c \in Clients, SaveScopes(c)
    PROVE  IInv' /\ Evolves
  <1> DEFINE v == req[c].version
             keys == {ScopeKey(v, s) : s \in ScopesOf(c, v)}
             rows == [k \in keys |-> [Priced(req[c].known[k[3]])
                                         EXCEPT !.area = Sees(c, k).area]]
  <1>1. SentBy(c) /\ Commits(c, rows)
    BY UnsentBy DEF SaveScopes, Runs
  <1>2. /\ req[c].op = "updateLine" /\ req[c].at = "saveScopes"
        /\ req[c] \in Request /\ HeadersHeld(c) /\ ScopesHeld(c)
        /\ Saving(c) /\ RowsTyped /\ Chain
    BY DEF SaveScopes, Runs, IInv, Sound
  <1>3. v \in Versions /\ req[c].known \in Measured /\ v # 0
    BY <1>2 DEF Request, Saving
  <1>4. /\ HeaderKey(v) \in DOMAIN tx[c]
        /\ Drafted(v) /\ IsDraftIn(tx[c][HeaderKey(v)])
        /\ tx[c][HeaderKey(v)] \in HeaderRow
        /\ tx[c][HeaderKey(v)].revision > db[HeaderKey(v)].revision
    BY <1>2, <1>3 DEF Saving, HeadersHeld, Holds
  <1>5. \A s \in Spaces : s \in ScopesOf(c, v) <=> req[c].known[s] # None
    BY <1>2, <1>3, <1>4, SeesKeeps DEF Saving, ScopesOf, HasScope
  <1>6. \A w \in Versions, s \in Spaces :
           Sees(c, ScopeKey(w, s)) = db[ScopeKey(w, s)]
    BY <1>2 DEF ScopesHeld, Holds, Sees
  <1>7. DOMAIN rows = keys /\ DOMAIN rows \subseteq Keys
    BY <1>3, KeysExist DEF ScopesOf
  <1>8. \A s \in ScopesOf(c, v) : rows[ScopeKey(v, s)] \in ScopeRow
    <2> SUFFICES ASSUME NEW s \in ScopesOf(c, v)
                 PROVE  rows[ScopeKey(v, s)] \in ScopeRow
      OBVIOUS
    <2>1. s \in Spaces /\ Sees(c, ScopeKey(v, s)) # NoScope
      BY DEF ScopesOf, HasScope
    <2>2. req[c].known[s] \in Measures
      BY <1>3, <1>5, <2>1 DEF Measured
    <2>3. Sees(c, ScopeKey(v, s)).area \in Measures
      BY <1>3, <2>1, SeesTyped DEF ScopeRow
    <2>4. ScopeKey(v, s)[3] = s /\ ScopeKey(v, s) \in keys
      BY DEF ScopeKey
    <2> QED
      BY <2>2, <2>3, <2>4, ScopeRows
  <1> HIDE DEF rows
  <1>9. DOMAIN db' = Keys
        /\ \A k \in Keys : db'[k] = IF k \in keys THEN rows[k] ELSE Sees(c, k)
    BY <1>1, <1>7, CommittedRows
  <1>10. /\ \A s \in Spaces : SpaceKey(s) \notin keys
         /\ \A w \in Versions : HeaderKey(w) \notin keys
         /\ \A w \in Versions, s \in Spaces :
               ScopeKey(w, s) \in keys <=> w = v /\ s \in ScopesOf(c, v)
    BY <1>3, KeysDiffer DEF ScopesOf
  <1> HIDE DEF keys, v
  <1>11. /\ \A s \in Spaces : db'[SpaceKey(s)] = Sees(c, SpaceKey(s))
         /\ \A w \in Versions : db'[HeaderKey(w)] = Sees(c, HeaderKey(w))
         /\ \A w \in Versions, s \in Spaces :
               \/ db'[ScopeKey(w, s)] = db[ScopeKey(w, s)]
               \/ /\ w = v
                  /\ db'[ScopeKey(w, s)] \in ScopeRow
                  /\ db[ScopeKey(w, s)] # NoScope
    BY <1>6, <1>8, <1>9, <1>10, KeysExist DEF ScopesOf, HasScope
  <1>12. RowsTyped'
    BY <1>2, <1>9, <1>11, SeesTyped DEF RowsTyped
  <1>13. Chain'
    BY <1>2, <1>3, <1>11, SeesStages, SameStages DEF Chain
  <1>14. \A w \in Versions : w # v => db'[HeaderKey(w)] = db[HeaderKey(w)]
    BY <1>2, <1>11 DEF HeadersHeld, Holds, Sees, v
  <1>15. /\ IsDraftIn(db'[HeaderKey(v)])
         /\ db'[HeaderKey(v)].revision > db[HeaderKey(v)].revision
         /\ db'[HeaderKey(v)].revision \in Nat
    BY <1>3, <1>4, <1>11 DEF Sees, HeaderRow
  <1>16. Evolves
    <2>1. \A s \in Spaces : db'[SpaceKey(s)].state = db[SpaceKey(s)].state
      BY <1>2, <1>11, SeesKeeps
    <2>2. \A w \in Versions, s \in Spaces :
             /\ db[ScopeKey(w, s)] # NoScope => db'[ScopeKey(w, s)] # NoScope
             /\ ~Drafted(w) => db'[ScopeKey(w, s)] = db[ScopeKey(w, s)]
             /\ w # v => db'[ScopeKey(w, s)] = db[ScopeKey(w, s)]
      BY <1>4, <1>11, ScopeRows
    <2> QED
      BY <1>2, <1>3, <1>4, <1>14, <1>15, <2>1, <2>2, EvolvesInStage
  <1>17. \A d \in Clients \ {c} :
            /\ DOMAIN rows \cap DOMAIN tx[d] = {}
            /\ req[d].op = "addSpace" => SpaceKey(req[d].space) \notin DOMAIN rows
    <2>1. Wants(c) = keys
      BY <1>2 DEF Wants, keys, v
    <2>2. \A d \in Clients \ {c} : keys \cap DOMAIN tx[d] = {}
      BY <2>1 DEF SaveScopes, Runs, WaitsFor
    <2>3. \A d \in Clients : req[d].op = "addSpace" => req[d].space \in Spaces
      BY DEF IInv, Sound, Adding
    <2> QED
      BY <1>7, <1>10, <2>2, <2>3
  <1> QED
    BY <1>1, <1>7, <1>12, <1>13, <1>16, <1>17, CommitKeepsInvariant

LEMMA AddDraftScopesKeeps ==
    ASSUME IInv, NEW c \in Clients, AddDraftScopes(c)
    PROVE  IInv' /\ Evolves
  <1> DEFINE v == req[c].version
             added == Missing(c, v)
             row == Totalled(Sees(c, HeaderKey(v)), req[c].known)
             scopes == NewScopes(c, v, added)
             rows == Over(scopes, Row(HeaderKey(v), row))
  <1>1. SentBy(c)
    BY UnsentBy DEF AddDraftScopes, Runs
  <1>2. /\ req[c].op = "getOrCreateDraft" /\ req[c].at = "addScopes"
        /\ req[c] \in Request /\ DOMAIN tx[c] = {} /\ Saving(c) /\ RowsTyped /\ Chain
    BY DEF AddDraftScopes, Runs, IInv, Sound, Stands, BeforeWriting
  <1>3. v \in Versions /\ v # 0 /\ req[c].known \in Measured
    BY <1>2 DEF Request, Saving
  <1>4. \A k : Sees(c, k) = db[k]
    BY <1>2 DEF Sees
  <1>5. CASE RolledBack(c)
    BY <1>1, <1>5, RollbackKeepsInvariant
  <1>6. CASE IsDraftAt(c, v, req[c].revision) /\ Commits(c, rows)
    <2>1. Drafted(v)
      BY <1>3, <1>6, SeesDraft DEF IsDraftAt
    <2>2. /\ row \in HeaderRow /\ row.status = db[HeaderKey(v)].status
          /\ row.isCurrent = db[HeaderKey(v)].isCurrent
          /\ row.revision > db[HeaderKey(v)].revision /\ row.revision \in Nat
      <3>1. db[HeaderKey(v)].revision + 1 > db[HeaderKey(v)].revision
            /\ db[HeaderKey(v)].revision + 1 \in Nat
        BY <1>2, <1>3 DEF RowsTyped, HeaderRow
      <3> QED
        BY <1>2, <1>3, <1>4, <3>1, TotalledRow DEF RowsTyped
    <2>3. \A s \in added :
             s \in Spaces /\ req[c].known[s] \in Measures /\ db[ScopeKey(v, s)] = NoScope
      BY <1>3, <1>4 DEF Missing, ScopesOf, HasScope, Measured
    <2>4. /\ DOMAIN scopes = {ScopeKey(v, s) : s \in added}
          /\ \A s \in added : scopes[ScopeKey(v, s)] = Priced(req[c].known[s])
      BY DEF NewScopes, ScopeKey
    <2>5. \A s \in added : scopes[ScopeKey(v, s)] \in ScopeRow
      BY <2>3, <2>4, ScopeRows
    <2> HIDE DEF scopes, added, row, v
    <2>6. /\ DOMAIN rows = DOMAIN scopes \cup {HeaderKey(v)}
          /\ \A k \in DOMAIN rows :
                rows[k] = IF k \in DOMAIN scopes THEN scopes[k] ELSE row
      BY DEF Over, Row
    <2> HIDE DEF rows
    <2>7. DOMAIN rows \subseteq Keys
      BY <1>3, <2>3, <2>4, <2>6, KeysExist
    <2>8. DOMAIN db' = Keys
          /\ \A k \in Keys : db'[k] = IF k \in DOMAIN rows THEN rows[k] ELSE db[k]
      BY <1>4, <1>6, <2>7, CommittedRows
    <2>9. /\ \A s \in Spaces : SpaceKey(s) \notin DOMAIN rows
          /\ \A w \in Versions : HeaderKey(w) \in DOMAIN rows <=> w = v
          /\ HeaderKey(v) \notin DOMAIN scopes
          /\ \A w \in Versions, s \in Spaces :
                ScopeKey(w, s) \in DOMAIN rows <=> w = v /\ s \in added
          /\ \A s \in added : ScopeKey(v, s) \in DOMAIN scopes
      BY <1>3, <2>3, <2>4, <2>6, KeysDiffer
    <2>10. /\ \A s \in Spaces : db'[SpaceKey(s)] = db[SpaceKey(s)]
           /\ \A w \in Versions : w # v => db'[HeaderKey(w)] = db[HeaderKey(w)]
           /\ db'[HeaderKey(v)] = row
           /\ \A w \in Versions, s \in Spaces :
                 \/ db'[ScopeKey(w, s)] = db[ScopeKey(w, s)]
                 \/ /\ w = v
                    /\ db'[ScopeKey(w, s)] \in ScopeRow
                    /\ db[ScopeKey(w, s)] = NoScope
      BY <1>3, <2>3, <2>5, <2>6, <2>8, <2>9, KeysExist
    <2>11. RowsTyped'
      BY <1>2, <2>2, <2>8, <2>10 DEF RowsTyped
    <2>12. Chain'
      BY <1>2, <2>1, <2>2, <2>10, SameStages DEF Exists, Drafted, IsDraftIn
    <2>13. IsDraftIn(row)
      BY <2>1, <2>2 DEF Drafted, IsDraftIn
    <2>14. Evolves
      BY <1>2, <1>3, <2>1, <2>2, <2>10, <2>13, EvolvesInStage
    <2>15. \A d \in Clients \ {c} :
             /\ DOMAIN rows \cap DOMAIN tx[d] = {}
             /\ req[d].op = "addSpace" => SpaceKey(req[d].space) \notin DOMAIN rows
      <3>1. Wants(c) = {HeaderKey(v)}
        BY <1>2, <1>3 DEF Wants, v
      <3>2. \A d \in Clients \ {c} : HeaderKey(v) \notin DOMAIN tx[d]
        BY <3>1 DEF AddDraftScopes, Runs, WaitsFor
      <3>3. \A d \in Clients, s \in added : ScopeKey(v, s) \notin DOMAIN tx[d]
        BY <1>3, <2>3 DEF IInv, Sound, ScopesHeld, Holds
      <3>4. \A d \in Clients : req[d].op = "addSpace" => req[d].space \in Spaces
        BY DEF IInv, Sound, Adding
      <3> QED
        BY <2>4, <2>6, <2>9, <3>2, <3>3, <3>4
    <2> QED
      BY <1>1, <1>6, <2>7, <2>11, <2>12, <2>14, <2>15, CommitKeepsInvariant
  <1> QED
    BY <1>5, <1>6 DEF AddDraftScopes

\* The rows of the spaces in a new order.
LEMMA RenumberedRows ==
    ASSUME IInv, NEW c \in Clients, NEW s \in LiveSpaces(c)
    PROVE  /\ [Sees(c, SpaceKey(s)) EXCEPT !.order = Renumbered(c)[s]] \in SpaceRow
           /\ [Sees(c, SpaceKey(s)) EXCEPT !.order = Renumbered(c)[s]].state
                = Sees(c, SpaceKey(s)).state
  <1>1. Sees(c, SpaceKey(s)) \in SpaceRow
    BY SeesTyped DEF LiveSpaces
  <1>2. Renumbered(c)[s] \in Nat
    <2> DEFINE before == {t \in LiveSpaces(c) :
                             Sees(c, SpaceKey(t)).order < Sees(c, SpaceKey(s)).order}
    <2>1. Renumbered(c)[s] = Cardinality(before)
      BY DEF Renumbered
    <2>2. before \in SUBSET Spaces
      BY DEF LiveSpaces
    <2> HIDE DEF before
    <2> QED
      BY <2>1, <2>2, SpacesCounted
  <1> QED
    BY <1>1, <1>2 DEF SpaceRow

LEMMA RenumberSpacesKeeps ==
    ASSUME IInv, NEW c \in Clients, RenumberSpaces(c)
    PROVE  IInv' /\ Evolves
  <1> DEFINE w == req[c].version
             keys == {SpaceKey(s) : s \in LiveSpaces(c)}
             rows == [k \in keys |->
                        [Sees(c, k) EXCEPT !.order = Renumbered(c)[k[2]]]]
  <1>1. SentBy(c)
    BY UnsentBy DEF RenumberSpaces, Runs
  <1>2. CASE RolledBack(c)
    BY <1>1, <1>2, RollbackKeepsInvariant
  <1>3. CASE Commits(c, rows)
    <2>1. /\ req[c].op = "deleteSpace" /\ req[c].at = "renumber"
          /\ req[c] \in Request /\ Removing(c) /\ RowsTyped /\ Chain
          /\ SpacesHeld(c) /\ HeadersHeld(c) /\ ScopesHeld(c)
      BY DEF RenumberSpaces, Runs, IInv, Sound
    <2>2. /\ req[c].space \in Spaces
          /\ Sees(c, SpaceKey(req[c].space)).state = "deleted"
          /\ w # 0 => /\ HeaderKey(w) \in DOMAIN tx[c]
                      /\ tx[c][HeaderKey(w)].revision > db[HeaderKey(w)].revision
      BY <2>1 DEF Removing, Holds
    <2>3. DOMAIN rows = keys /\ DOMAIN rows \subseteq Keys
      BY KeysExist DEF LiveSpaces
    <2>4. \A s \in LiveSpaces(c) :
             /\ rows[SpaceKey(s)] \in SpaceRow
             /\ rows[SpaceKey(s)].state = Sees(c, SpaceKey(s)).state
      <3> SUFFICES ASSUME NEW s \in LiveSpaces(c)
                   PROVE  /\ rows[SpaceKey(s)] \in SpaceRow
                          /\ rows[SpaceKey(s)].state = Sees(c, SpaceKey(s)).state
        OBVIOUS
      <3>1. SpaceKey(s)[2] = s /\ SpaceKey(s) \in keys
        BY DEF SpaceKey
      <3>2. rows[SpaceKey(s)] =
               [Sees(c, SpaceKey(s)) EXCEPT !.order = Renumbered(c)[s]]
        BY <3>1
      <3> QED
        BY <3>2, RenumberedRows
    <2> HIDE DEF rows
    <2>5. DOMAIN db' = Keys
          /\ \A k \in Keys : db'[k] = IF k \in keys THEN rows[k] ELSE Sees(c, k)
      BY <1>3, <2>3, CommittedRows
    <2>6. /\ \A s \in Spaces : SpaceKey(s) \in keys <=> s \in LiveSpaces(c)
          /\ \A v \in Versions : HeaderKey(v) \notin keys
          /\ \A v \in Versions, s \in Spaces : ScopeKey(v, s) \notin keys
      BY KeysDiffer DEF LiveSpaces
    <2> HIDE DEF keys, w
    <2>7. /\ \A s \in Spaces : /\ db'[SpaceKey(s)] \in SpaceRow
                               /\ db'[SpaceKey(s)].state = Sees(c, SpaceKey(s)).state
          /\ \A v \in Versions : db'[HeaderKey(v)] = Sees(c, HeaderKey(v))
          /\ \A v \in Versions, s \in Spaces :
                db'[ScopeKey(v, s)] = Sees(c, ScopeKey(v, s))
      BY <2>4, <2>5, <2>6, KeysExist, SeesTyped
    <2>8. RowsTyped'
      BY <2>1, <2>5, <2>7, SeesTyped DEF RowsTyped
    <2>9. \A v \in Versions, s \in Spaces :
             db'[ScopeKey(v, s)] # db[ScopeKey(v, s)] =>
                 /\ v = w /\ Drafted(v)
                 /\ db[ScopeKey(v, s)] # NoScope
                 /\ db'[ScopeKey(v, s)] = NoScope => s = req[c].space
      BY <2>1, <2>7 DEF ScopesHeld, HeadersHeld, Holds, Sees, w
    <2>10. Chain'
      BY <2>1, <2>7, <2>9, SeesStages, SameStages DEF Chain
    <2>11. \A s \in Spaces :
              /\ db[SpaceKey(s)].state # "none" => db'[SpaceKey(s)].state # "none"
              /\ db[SpaceKey(s)].state = "deleted" => db'[SpaceKey(s)].state = "deleted"
      BY <2>1, <2>7 DEF SpacesHeld, Holds, Sees
    <2>12. \A v \in Versions :
              \/ db'[HeaderKey(v)] = db[HeaderKey(v)] /\ v # w
              \/ db'[HeaderKey(v)] = db[HeaderKey(v)] /\ ~Drafted(v)
              \/ /\ Drafted(v) /\ IsDraftIn(db'[HeaderKey(v)])
                 /\ db'[HeaderKey(v)].revision > db[HeaderKey(v)].revision
      <3> SUFFICES ASSUME NEW v \in Versions
                   PROVE  \/ db'[HeaderKey(v)] = db[HeaderKey(v)] /\ v # w
                          \/ db'[HeaderKey(v)] = db[HeaderKey(v)] /\ ~Drafted(v)
                          \/ /\ Drafted(v) /\ IsDraftIn(db'[HeaderKey(v)])
                             /\ db'[HeaderKey(v)].revision > db[HeaderKey(v)].revision
        OBVIOUS
      <3>1. CASE v = w
        <4>1. /\ HeaderKey(v) \in DOMAIN tx[c]
              /\ tx[c][HeaderKey(v)].revision > db[HeaderKey(v)].revision
          BY <2>2, <3>1 DEF Versions
        <4>2. Drafted(v) /\ IsDraftIn(tx[c][HeaderKey(v)])
          BY <2>1, <4>1 DEF HeadersHeld, Holds
        <4> QED
          BY <2>7, <4>1, <4>2 DEF Sees
      <3>2. CASE v # w
        <4>1. HeaderKey(v) \notin DOMAIN tx[c]
          BY <2>1, <3>2 DEF HeadersHeld, Holds, w
        <4> QED
          BY <2>7, <3>2, <4>1 DEF Sees
      <3> QED
        BY <3>1, <3>2
    <2>13. ASSUME NEW v \in Versions
           PROVE  /\ Exists(v) => db'[HeaderKey(v)].status # "none"
                  /\ Exists(v) /\ ~Drafted(v) => ~IsDraftIn(db'[HeaderKey(v)])
                  /\ Drafted(v) /\ IsDraftIn(db'[HeaderKey(v)]) =>
                     /\ db'[HeaderKey(v)].revision >= db[HeaderKey(v)].revision
                     /\ (\E s \in Spaces : db'[ScopeKey(v, s)] # db[ScopeKey(v, s)])
                          => db'[HeaderKey(v)].revision > db[HeaderKey(v)].revision
                  /\ db[HeaderKey(v)].status = "QUOTED" =>
                     /\ db'[HeaderKey(v)].totals = db[HeaderKey(v)].totals
                     /\ db'[HeaderKey(v)].status = "QUOTED"
                     /\ \A s \in Spaces : db'[ScopeKey(v, s)] = NoScope <=>
                                             db[ScopeKey(v, s)] = NoScope
      <3>1. db[HeaderKey(v)].revision \in Nat /\ db'[HeaderKey(v)].revision \in Nat
        BY <2>1, <2>7, SeesTyped DEF RowsTyped, HeaderRow
      <3>2. CASE db'[HeaderKey(v)] = db[HeaderKey(v)] /\ v # w
        BY <2>9, <3>1, <3>2 DEF Exists, Drafted
      <3>3. CASE db'[HeaderKey(v)] = db[HeaderKey(v)] /\ ~Drafted(v)
        BY <2>9, <3>1, <3>3 DEF Exists, Drafted
      <3>4. CASE /\ Drafted(v) /\ IsDraftIn(db'[HeaderKey(v)])
                 /\ db'[HeaderKey(v)].revision > db[HeaderKey(v)].revision
        BY <3>1, <3>4 DEF Exists, Drafted, IsDraftIn
      <3> QED
        BY <2>12, <3>2, <3>3, <3>4
    <2>14. \A v \in Versions, s \in Spaces :
              db[ScopeKey(v, s)] # NoScope /\ db'[ScopeKey(v, s)] = NoScope =>
                  db'[SpaceKey(s)].state = "deleted"
      BY <2>2, <2>7, <2>9
    <2>15. Evolves
      BY <2>11, <2>13, <2>14 DEF Evolves
    <2>16. \A d \in Clients \ {c} :
              /\ DOMAIN rows \cap DOMAIN tx[d] = {}
              /\ req[d].op = "addSpace" => SpaceKey(req[d].space) \notin DOMAIN rows
      <3>1. Wants(c) = keys
        BY <2>1 DEF Wants, keys
      <3>2. \A d \in Clients \ {c} : keys \cap DOMAIN tx[d] = {}
        BY <3>1 DEF RenumberSpaces, Runs, WaitsFor
      <3>3. \A s \in LiveSpaces(c) : db[SpaceKey(s)].state = "live"
        BY <2>1 DEF LiveSpaces, Sees, SpacesHeld, Holds
      <3>4. \A d \in Clients : req[d].op = "addSpace" =>
               req[d].space \in Spaces /\ db[SpaceKey(req[d].space)].state = "none"
        BY DEF IInv, Sound, Adding
      <3> QED
        BY <2>3, <2>6, <3>2, <3>3, <3>4
    <2> QED
      BY <1>1, <1>3, <2>3, <2>8, <2>10, <2>15, <2>16, CommitKeepsInvariant
  <1> QED
    BY <1>2, <1>3 DEF RenumberSpaces

LEMMA CreateDraftKeeps ==
    ASSUME IInv, NEW c \in Clients, CreateDraft(c)
    PROVE  IInv' /\ Evolves
  <1> DEFINE added == {s \in Spaces : req[c].known[s] # None}
             row == [status |-> "DRAFT", isCurrent |-> TRUE, revision |-> 0,
                     totals |-> req[c].known]
             scopes == NewScopes(c, 1, added)
             rows == Over(scopes, Row(HeaderKey(1), row))
  <1>1. SentBy(c)
    BY UnsentBy DEF CreateDraft, Runs
  <1>2. /\ req[c].op = "getOrCreateDraft" /\ req[c].at = "createDraft"
        /\ req[c] \in Request /\ DOMAIN tx[c] = {} /\ RowsTyped /\ Chain
    BY DEF CreateDraft, Runs, IInv, Sound, Stands, BeforeWriting
  <1>3. /\ req[c].known \in Measured
        /\ 1 \in Versions
    BY <1>2, ConstantsAssumption DEF Request, Versions
  <1>4. \A k : Sees(c, k) = db[k]
    BY <1>2 DEF Sees
  <1>5. CASE RolledBack(c)
    BY <1>1, <1>5, RollbackKeepsInvariant
  <1>6. CASE CurrentVersions(c) = {} /\ Commits(c, rows)
    <2>1. \A v \in Versions : ~Exists(v) /\ ~db[HeaderKey(v)].isCurrent
      BY <1>2, <1>4, <1>6 DEF CurrentVersions, Chain
    <2>2. \A v \in Versions, s \in Spaces : db[ScopeKey(v, s)] = NoScope
      BY <1>2, <2>1 DEF Chain
    <2>3. row \in HeaderRow /\ row.status = "DRAFT" /\ row.isCurrent
      BY <1>3 DEF HeaderRow
    <2>4. \A s \in added : s \in Spaces /\ req[c].known[s] \in Measures
      BY <1>3 DEF Measured
    <2>5. /\ DOMAIN scopes = {ScopeKey(1, s) : s \in added}
          /\ \A s \in added : scopes[ScopeKey(1, s)] = Priced(req[c].known[s])
      BY DEF NewScopes, ScopeKey
    <2>6. \A s \in added : scopes[ScopeKey(1, s)] \in ScopeRow
      BY <2>4, <2>5, ScopeRows
    <2> HIDE DEF scopes, added, row
    <2>7. /\ DOMAIN rows = DOMAIN scopes \cup {HeaderKey(1)}
          /\ \A k \in DOMAIN rows :
                rows[k] = IF k \in DOMAIN scopes THEN scopes[k] ELSE row
      BY DEF Over, Row
    <2> HIDE DEF rows
    <2>8. DOMAIN rows \subseteq Keys
      BY <1>3, <2>4, <2>5, <2>7, KeysExist
    <2>9. DOMAIN db' = Keys
          /\ \A k \in Keys : db'[k] = IF k \in DOMAIN rows THEN rows[k] ELSE db[k]
      BY <1>4, <1>6, <2>8, CommittedRows
    <2>10. /\ \A s \in Spaces : SpaceKey(s) \notin DOMAIN rows
           /\ \A v \in Versions : HeaderKey(v) \in DOMAIN rows <=> v = 1
           /\ HeaderKey(1) \notin DOMAIN scopes
           /\ \A v \in Versions, s \in Spaces :
                 ScopeKey(v, s) \in DOMAIN rows <=> v = 1 /\ s \in added
           /\ \A s \in added : ScopeKey(1, s) \in DOMAIN scopes
      BY <1>3, <2>4, <2>5, <2>7, KeysDiffer
    <2>11. /\ \A s \in Spaces : db'[SpaceKey(s)] = db[SpaceKey(s)]
           /\ \A v \in Versions : v # 1 => db'[HeaderKey(v)] = db[HeaderKey(v)]
           /\ db'[HeaderKey(1)] = row
           /\ \A v \in Versions, s \in Spaces :
                 \/ db'[ScopeKey(v, s)] = NoScope
                 \/ v = 1 /\ db'[ScopeKey(v, s)] \in ScopeRow
      BY <1>3, <2>2, <2>6, <2>7, <2>9, <2>10, KeysExist
    <2>12. RowsTyped'
      BY <1>2, <2>3, <2>9, <2>11 DEF RowsTyped
    <2>13. Chain'
      BY <1>3, <2>1, <2>3, <2>11 DEF Chain, Exists, Versions
    <2>14. \A v \in Versions : ~Drafted(v) /\ db[HeaderKey(v)].status # "QUOTED"
      BY <2>1 DEF Exists, Drafted, IsDraftIn
    <2>15. Evolves
      BY <2>1, <2>2, <2>11, <2>14 DEF Evolves
    <2>16. \A d \in Clients \ {c} :
              /\ DOMAIN rows \cap DOMAIN tx[d] = {}
              /\ req[d].op = "addSpace" => SpaceKey(req[d].space) \notin DOMAIN rows
      <3>1. \A d \in Clients : HeaderKey(1) \notin DOMAIN tx[d]
        BY <1>3, <2>14 DEF IInv, Sound, HeadersHeld, Holds
      <3>2. \A d \in Clients, s \in added : ScopeKey(1, s) \notin DOMAIN tx[d]
        BY <1>3, <2>2, <2>4 DEF IInv, Sound, ScopesHeld, Holds
      <3>3. \A d \in Clients : req[d].op = "addSpace" => req[d].space \in Spaces
        BY DEF IInv, Sound, Adding
      <3> QED
        BY <2>5, <2>7, <2>10, <3>1, <3>2, <3>3
    <2> QED
      BY <1>1, <1>6, <2>8, <2>12, <2>13, <2>15, <2>16, CommitKeepsInvariant
  <1> QED
    BY <1>5, <1>6 DEF CreateDraft

\* A browser that waits for nothing holds nothing.
LEMMA NothingHeld ==
    ASSUME IInv, NEW c \in Clients,
           req[c].op = "none" \/ req[c].at \in BeforeWriting
    PROVE  DOMAIN tx[c] = {} /\ \A k : Sees(c, k) = db[k]
  BY DEF IInv, Sound, Stands, BeforeWriting, Sees

LEMMA SubmitKeeps ==
    ASSUME IInv, NEW c \in Clients, Submit(c)
    PROVE  IInv' /\ Evolves
  <1>1. SentBy(c)
    BY SendingBy DEF Submit
  <1>2. PICK v \in Versions :
           /\ IsDraft(c, v)
           /\ \A d \in Clients : HeaderKey(v) \notin DOMAIN tx[d]
           /\ Commits(c, Row(HeaderKey(v), [db[HeaderKey(v)] EXCEPT !.status = "QUOTED"]))
    BY DEF Submit
  <1> DEFINE row == [db[HeaderKey(v)] EXCEPT !.status = "QUOTED"]
             rows == Row(HeaderKey(v), row)
  <1>3. RowsTyped /\ Chain /\ \A k : Sees(c, k) = db[k]
    BY NothingHeld DEF IInv, Submit, Sending
  <1>4. Drafted(v) /\ db[HeaderKey(v)] \in HeaderRow
    BY <1>2, <1>3, SeesDraft DEF RowsTyped
  <1>5. /\ row \in HeaderRow /\ row.status = "QUOTED"
        /\ row.isCurrent = db[HeaderKey(v)].isCurrent
    BY <1>4 DEF HeaderRow
  <1> HIDE DEF row
  <1>6. DOMAIN rows = {HeaderKey(v)} /\ rows[HeaderKey(v)] = row
    BY DEF Row
  <1>7. DOMAIN rows \subseteq Keys /\ Commits(c, rows)
    BY <1>2, <1>6, KeysExist DEF row
  <1> HIDE DEF rows
  <1>8. DOMAIN db' = Keys
        /\ \A k \in Keys : db'[k] = IF k = HeaderKey(v) THEN row ELSE db[k]
    BY <1>3, <1>6, <1>7, CommittedRows
  <1>9. /\ \A s \in Spaces : db'[SpaceKey(s)] = db[SpaceKey(s)]
        /\ \A w \in Versions : w # v => db'[HeaderKey(w)] = db[HeaderKey(w)]
        /\ db'[HeaderKey(v)] = row
        /\ \A w \in Versions, s \in Spaces :
              db'[ScopeKey(w, s)] = db[ScopeKey(w, s)]
    BY <1>8, KeysExist, KeysDiffer
  <1>10. RowsTyped'
    BY <1>3, <1>5, <1>8, <1>9 DEF RowsTyped
  <1>11. Chain'
    <2>1. \A w \in Versions :
             /\ db'[HeaderKey(w)].status = "none" <=> db[HeaderKey(w)].status = "none"
             /\ db'[HeaderKey(w)].status = "DRAFT" => db[HeaderKey(w)].status = "DRAFT"
      BY <1>4, <1>5, <1>9 DEF Drafted, IsDraftIn
    <2>2. \A w \in Versions :
             db'[HeaderKey(w)].isCurrent <=> db[HeaderKey(w)].isCurrent
      BY <1>5, <1>9
    <2> QED
      BY <1>3, <1>9, <2>1, <2>2 DEF Chain, Exists
  <1>12. \A w \in Versions : db[HeaderKey(w)].revision \in Nat
    BY <1>3 DEF RowsTyped, HeaderRow
  <1>13. Evolves
    BY <1>4, <1>5, <1>9, <1>12 DEF Evolves, Exists, Drafted, IsDraftIn
  <1>14. \A d \in Clients \ {c} :
            /\ DOMAIN rows \cap DOMAIN tx[d] = {}
            /\ req[d].op = "addSpace" => SpaceKey(req[d].space) \notin DOMAIN rows
    <2>1. \A d \in Clients : req[d].op = "addSpace" => req[d].space \in Spaces
      BY DEF IInv, Sound, Adding
    <2> QED
      BY <1>2, <1>6, <2>1, KeysDiffer
  <1> QED
    BY <1>1, <1>7, <1>10, <1>11, <1>13, <1>14, CommitKeepsInvariant

LEMMA ContinueEditingKeeps ==
    ASSUME IInv, NEW c \in Clients, ContinueEditing(c)
    PROVE  IInv' /\ Evolves
  <1>1. SentBy(c)
    BY SendingBy DEF ContinueEditing
  <1>2. RowsTyped /\ Chain /\ \A k : Sees(c, k) = db[k]
    BY NothingHeld DEF IInv, ContinueEditing, Sending
  <1>3. PICK v \in CurrentVersions(c) \ {MaxVersion} :
           /\ db[HeaderKey(v)].status = "QUOTED"
           /\ \A d \in Clients : HeaderKey(v) \notin DOMAIN tx[d]
           /\ Commits(c, Over([x \in {ScopeKey(v + 1, s) : s \in Spaces} |->
                                     db[ScopeKey(v, x[3])]],
                    Over(Row(HeaderKey(v + 1),
                             [db[HeaderKey(v)] EXCEPT !.status = "DRAFT", !.revision = 0]),
                         Row(HeaderKey(v), [db[HeaderKey(v)] EXCEPT !.isCurrent = FALSE]))))
    BY DEF ContinueEditing
  <1> DEFINE w == v + 1
             scopes == [x \in {ScopeKey(w, s) : s \in Spaces} |-> db[ScopeKey(v, x[3])]]
             draft == [db[HeaderKey(v)] EXCEPT !.status = "DRAFT", !.revision = 0]
             old == [db[HeaderKey(v)] EXCEPT !.isCurrent = FALSE]
             rows == Over(scopes, Over(Row(HeaderKey(w), draft), Row(HeaderKey(v), old)))
  <1>4. /\ v \in Versions /\ w \in Versions /\ v # w
        /\ \A u \in Versions : u > v /\ u # w => u > w
    BY <1>3, ConstantsAssumption DEF CurrentVersions, Versions
  <1>5. db[HeaderKey(v)].isCurrent /\ db[HeaderKey(v)] \in HeaderRow
    BY <1>2, <1>3, <1>4 DEF CurrentVersions, RowsTyped
  <1>6. \A u \in Versions : u > v => ~Exists(u) /\ ~db[HeaderKey(u)].isCurrent
    BY <1>2, <1>4, <1>5 DEF Chain
  <1>7. ~Exists(w) /\ \A s \in Spaces : db[ScopeKey(w, s)] = NoScope
    BY <1>2, <1>4, <1>6 DEF Chain, Versions
  <1>8. draft \in HeaderRow /\ draft.status = "DRAFT" /\ draft.isCurrent
    <2> DEFINE opened == [db[HeaderKey(v)] EXCEPT !.status = "DRAFT"]
    <2>1. opened \in HeaderRow /\ opened.status = "DRAFT"
      BY <1>5 DEF HeaderRow
    <2>2. opened.isCurrent
      BY <1>5 DEF HeaderRow
    <2>3. draft = [opened EXCEPT !.revision = 0]
      BY <1>5 DEF HeaderRow
    <2> HIDE DEF opened
    <2>4. draft \in HeaderRow /\ draft.status = "DRAFT"
      BY <2>1, <2>3 DEF HeaderRow
    <2>5. draft.isCurrent
      BY <2>1, <2>2, <2>3 DEF HeaderRow
    <2> QED
      BY <2>4, <2>5
  <1>9. /\ old \in HeaderRow /\ old.status = "QUOTED"
        /\ old.totals = db[HeaderKey(v)].totals
    BY <1>3, <1>5 DEF HeaderRow
  <1>10. ~old.isCurrent
    BY <1>5 DEF HeaderRow
  <1>11. /\ DOMAIN scopes = {ScopeKey(w, s) : s \in Spaces}
         /\ \A s \in Spaces : scopes[ScopeKey(w, s)] = db[ScopeKey(v, s)]
    BY DEF ScopeKey
  <1>12. Commits(c, rows)
    BY <1>3
  <1> HIDE DEF scopes, draft, old, w
  <1>13. /\ DOMAIN rows = DOMAIN scopes \cup {HeaderKey(w), HeaderKey(v)}
         /\ \A k \in DOMAIN rows :
               rows[k] = IF k \in DOMAIN scopes THEN scopes[k]
                         ELSE IF k = HeaderKey(w) THEN draft ELSE old
    BY DEF Over, Row
  <1> HIDE DEF rows
  <1>14. DOMAIN rows \subseteq Keys
    BY <1>4, <1>11, <1>13, KeysExist
  <1>15. DOMAIN db' = Keys
         /\ \A k \in Keys : db'[k] = IF k \in DOMAIN rows THEN rows[k] ELSE db[k]
    BY <1>2, <1>12, <1>14, CommittedRows
  <1>16. /\ \A s \in Spaces : SpaceKey(s) \notin DOMAIN rows
         /\ \A u \in Versions : HeaderKey(u) \in DOMAIN rows <=> u \in {v, w}
         /\ \A u \in Versions : HeaderKey(u) \notin DOMAIN scopes
         /\ \A u \in Versions, s \in Spaces :
               /\ ScopeKey(u, s) \in DOMAIN scopes <=> u = w
               /\ ScopeKey(u, s) \in DOMAIN rows <=> u = w
         /\ HeaderKey(w) # HeaderKey(v)
    BY <1>4, <1>11, <1>13, KeysDiffer
  <1>17. /\ \A s \in Spaces : db'[SpaceKey(s)] = db[SpaceKey(s)]
         /\ \A u \in Versions \ {v, w} : db'[HeaderKey(u)] = db[HeaderKey(u)]
         /\ db'[HeaderKey(w)] = draft /\ db'[HeaderKey(v)] = old
         /\ \A u \in Versions \ {w}, s \in Spaces :
               db'[ScopeKey(u, s)] = db[ScopeKey(u, s)]
         /\ \A s \in Spaces : db'[ScopeKey(w, s)] = db[ScopeKey(v, s)]
    BY <1>4, <1>11, <1>13, <1>15, <1>16, KeysExist
  <1>18. RowsTyped'
    BY <1>2, <1>4, <1>8, <1>9, <1>15, <1>17 DEF RowsTyped
  <1>19. \A u \in Versions : u # v => ~db[HeaderKey(u)].isCurrent
    <2>1. \A u \in Versions : u < v => ~db[HeaderKey(u)].isCurrent
      BY <1>2, <1>3, <1>4 DEF Chain, Exists, Versions
    <2> QED
      BY <1>4, <1>6, <2>1 DEF Versions
  <1>20. Chain'
    <2>1. db'[HeaderKey(w)].isCurrent
      BY <1>8, <1>17
    <2>2. \A u \in Versions : u # w => ~db'[HeaderKey(u)].isCurrent
      BY <1>10, <1>17, <1>19
    <2>3. \A u \in Versions :
             db'[HeaderKey(u)].status # "none" <=> Exists(u) \/ u = w
      BY <1>3, <1>4, <1>8, <1>9, <1>17 DEF Exists
    <2>4. \A u \in Versions : db'[HeaderKey(u)].status = "DRAFT" => u = w
      BY <1>2, <1>9, <1>17, <1>19 DEF Chain
    <2>5. \A u \in Versions : u > w => ~Exists(u)
      BY <1>4, <1>6 DEF Versions, w
    <2>6. \A u \in Versions : ~Exists(u) /\ u # w =>
             \A s \in Spaces : db'[ScopeKey(u, s)] = NoScope
      BY <1>2, <1>17 DEF Chain
    <2>7. \A u \in Versions :
             /\ db'[HeaderKey(u)].isCurrent => db'[HeaderKey(u)].status # "none"
             /\ db'[HeaderKey(u)].status = "DRAFT" => db'[HeaderKey(u)].isCurrent
             /\ db'[HeaderKey(u)].isCurrent =>
                   \A x \in Versions : x > u => ~(db'[HeaderKey(x)].status # "none")
      BY <1>4, <2>1, <2>2, <2>3, <2>4, <2>5 DEF Versions
    <2>8. \A u \in Versions :
             /\ db'[HeaderKey(u)].status # "none" =>
                   \E x \in Versions : db'[HeaderKey(x)].isCurrent
             /\ ~(db'[HeaderKey(u)].status # "none") =>
                   \A s \in Spaces : db'[ScopeKey(u, s)] = NoScope
      BY <1>4, <2>1, <2>3, <2>6
    <2> QED
      BY <2>7, <2>8 DEF Chain, Exists
  <1>21. \A u \in Versions : db[HeaderKey(u)].revision \in Nat
    BY <1>2 DEF RowsTyped, HeaderRow
  <1>22. ~Drafted(v) /\ ~Drafted(w) /\ ~IsDraftIn(old)
    BY <1>3, <1>7, <1>10 DEF Drafted, IsDraftIn, Exists
  <1>23. Evolves
    BY <1>3, <1>4, <1>7, <1>8, <1>9, <1>17, <1>21, <1>22 DEF Evolves, Exists, Drafted
  <1>24. \A d \in Clients \ {c} :
            /\ DOMAIN rows \cap DOMAIN tx[d] = {}
            /\ req[d].op = "addSpace" => SpaceKey(req[d].space) \notin DOMAIN rows
    <2>1. \A d \in Clients : HeaderKey(w) \notin DOMAIN tx[d]
      BY <1>4, <1>22 DEF IInv, Sound, HeadersHeld, Holds
    <2>2. \A d \in Clients, s \in Spaces : ScopeKey(w, s) \notin DOMAIN tx[d]
      BY <1>4, <1>7 DEF IInv, Sound, ScopesHeld, Holds
    <2>3. \A d \in Clients : req[d].op = "addSpace" => req[d].space \in Spaces
      BY DEF IInv, Sound, Adding
    <2> QED
      BY <1>3, <1>11, <1>13, <1>16, <2>1, <2>2, <2>3
  <1> QED
    BY <1>1, <1>12, <1>14, <1>18, <1>20, <1>23, <1>24, CommitKeepsInvariant

-----------------------------------------------------------------------------
(* The statements before the commit.                                       *)

\* A statement of c that writes nothing but rows it holds or has just locked.
LEMMA StatementKeepsInvariant ==
    ASSUME IInv, NEW c \in Clients, UNCHANGED db, SentBy(c),
           DOMAIN tx' = Clients, DOMAIN req' = Clients,
           \A d \in Clients \ {c} : tx'[d] = tx[d] /\ req'[d] = req[d],
           \A k \in DOMAIN tx'[c] :
              k \in DOMAIN tx[c] \/ \A d \in Clients \ {c} : k \notin DOMAIN tx[d],
           req'[c].op = "addSpace" =>
              \A d \in Clients \ {c} :
                 req[d].op = "addSpace" => req[d].space # req'[c].space,
           Sound(c)'
    PROVE  IInv' /\ Evolves
  <1>1. RowsTyped' /\ Chain'
    BY DEF IInv, RowsTyped, Chain, Exists
  <1>2. Evolves
    <2>1. \A v \in Versions : db[HeaderKey(v)].revision \in Nat
      BY DEF IInv, RowsTyped, HeaderRow
    <2> QED
      BY <2>1 DEF Evolves, Exists, Drafted
  <1>3. Domains'
    BY DEF Domains, SentBy
  <1>4. LocksDisjoint'
    BY DEF IInv, LocksDisjoint
  <1>5. AddersApart'
    BY DEF IInv, AddersApart
  <1>6. ASSUME NEW d \in Clients, d # c
        PROVE  Sound(d)'
    <2>1. Undisturbed(d)
      BY <1>6 DEF Undisturbed, SentBy
    <2> QED
      BY <1>1, <1>2, <2>1, OthersStaySound
  <1> QED
    BY <1>1, <1>2, <1>3, <1>4, <1>5, <1>6 DEF IInv

LEMMA Locked ==
    ASSUME NEW c \in Clients, NEW k \in Wants(c), \A d \in Clients : ~WaitsFor(c, d)
    PROVE  \A d \in Clients \ {c} : k \notin DOMAIN tx[d]
  BY DEF WaitsFor

LEMMA ProceedsTo ==
    ASSUME IInv, NEW c \in Clients, NEW at \in Steps, Proceeds(c, at)
    PROVE  /\ DOMAIN req' = Clients /\ \A d \in Clients \ {c} : req'[d] = req[d]
           /\ req'[c] \in Request /\ req'[c].at = at
           /\ req'[c].op = req[c].op /\ req'[c].space = req[c].space
           /\ req'[c].measure = req[c].measure /\ req'[c].scopeOf = req[c].scopeOf
           /\ req'[c].version = req[c].version /\ req'[c].revision = req[c].revision
           /\ req'[c].known = req[c].known
  BY DEF IInv, Domains, Sound, Proceeds, Request

LEMMA RowWritten ==
    ASSUME IInv, NEW c \in Clients, NEW k, NEW row, Writes(c, Row(k, row))
    PROVE  /\ DOMAIN tx' = Clients /\ \A d \in Clients \ {c} : tx'[d] = tx[d]
           /\ DOMAIN tx'[c] = DOMAIN tx[c] \cup {k}
           /\ \A x \in DOMAIN tx'[c] : tx'[c][x] = IF x = k THEN row ELSE tx[c][x]
  <1>1. /\ DOMAIN tx' = Clients /\ \A d \in Clients \ {c} : tx'[d] = tx[d]
        /\ tx'[c] = Over(Row(k, row), tx[c])
    BY DEF IInv, Domains, Writes
  <1> QED
    BY <1>1 DEF Over, Row

LEMMA RowsWritten ==
    ASSUME IInv, NEW c \in Clients, NEW rows, Writes(c, rows)
    PROVE  /\ DOMAIN tx' = Clients /\ \A d \in Clients \ {c} : tx'[d] = tx[d]
           /\ DOMAIN tx'[c] = DOMAIN tx[c] \cup DOMAIN rows
           /\ \A x \in DOMAIN tx'[c] :
                 tx'[c][x] = IF x \in DOMAIN rows THEN rows[x] ELSE tx[c][x]
  <1>1. /\ DOMAIN tx' = Clients /\ \A d \in Clients \ {c} : tx'[d] = tx[d]
        /\ tx'[c] = Over(rows, tx[c])
    BY DEF IInv, Domains, Writes
  <1> QED
    BY <1>1 DEF Over

\* There is one draft, and every statement finds it.
LEMMA DraftFound ==
    ASSUME IInv, NEW c \in Clients
    PROVE  /\ Draft(c) \in Versions \cup {0}
           /\ Draft(c) # 0 => Drafted(Draft(c)) /\ IsDraft(c, Draft(c))
           /\ \A v \in Versions : Drafted(v) => Draft(c) = v
  <1>1. Draft(c) # 0 => Draft(c) \in Versions /\ IsDraft(c, Draft(c))
    BY DEF Draft
  <1>2. Draft(c) # 0 => Drafted(Draft(c))
    BY <1>1, SeesDraft
  <1>3. ASSUME NEW v \in Versions, Drafted(v)
        PROVE  Draft(c) = v
    <2>1. IsDraft(c, v) /\ v # 0
      BY <1>3, SeesDraft DEF Versions
    <2>2. Draft(c) # 0
      <3>1. (CHOOSE x \in Versions : IsDraft(c, x)) \in Versions
        BY <2>1
      <3> QED
        BY <2>1, <3>1 DEF Draft, Versions
    <2>3. \A x, y \in Versions : Drafted(x) /\ Drafted(y) => ~(x < y)
      BY DEF IInv, Chain, Drafted, IsDraftIn, Exists
    <2> QED
      BY <1>1, <1>2, <1>3, <2>2, <2>3 DEF Versions
  <1> QED
    BY <1>1, <1>2, <1>3

LEMMA ScopesSummed ==
    ASSUME IInv, NEW c \in Clients, NEW v \in Versions \cup {0}
    PROVE  Sums(c, v) \in Measured
  <1>1. \A s \in Spaces : HasScope(c, v, s) => Sees(c, ScopeKey(v, s)).subtotal \in Measures
    BY SeesTyped DEF HasScope, ScopeRow
  <1> QED
    BY <1>1 DEF Sums, Measured

-----------------------------------------------------------------------------
(* The reads before a transaction.                                         *)

\* A request that has just been accepted holds nothing.
LEMMA AcceptedSound ==
    ASSUME IInv, NEW c \in Clients, req[c].op = "none", UNCHANGED <<db, tx>>, SentBy(c),
           DOMAIN req' = Clients, \A d \in Clients \ {c} : req'[d] = req[d],
           req'[c] \in Request,
           \/ req'[c].op \in {"addSpace", "updateSpace", "deleteSpace"}
                /\ req'[c].at = "state"
           \/ req'[c].op = "getOrCreateDraft" /\ req'[c].at = "openDraft"
           \/ req'[c].op = "updateLine" /\ req'[c].at = "saveHeader",
           req'[c].op = "addSpace" =>
              \A d \in Clients \ {c} :
                 req[d].op = "addSpace" => req[d].space # req'[c].space,
           Adding(c)', Updating(c)', Removing(c)', Saving(c)'
    PROVE  IInv' /\ Evolves
  <1>1. DOMAIN tx[c] = {}
    BY NothingHeld
  <1>2. SpacesHeld(c)' /\ HeadersHeld(c)' /\ ScopesHeld(c)'
    BY <1>1 DEF SpacesHeld, HeadersHeld, ScopesHeld, Holds
  <1>3. Stands(c)'
    BY <1>1 DEF Stands
  <1>4. Sound(c)'
    BY <1>1, <1>2, <1>3 DEF Sound, SentBy
  <1> QED
    BY <1>1, <1>4, StatementKeepsInvariant DEF IInv, Domains

LEMMA KnownProjectTyped ==
    ASSUME IInv, NEW c \in Clients
    PROVE  KnownProject(c) \in Measured
  BY DEF IInv, RowsTyped, SpaceRow, KnownProject, Measured

LEMMA NothingTyped == Nothing \in Measured
  BY DEF Nothing, Measured

LEMMA ReadForAddSpaceKeeps ==
    ASSUME IInv, NEW c \in Clients, ReadForAddSpace(c)
    PROVE  IInv' /\ Evolves
  <1>1. PICK s \in Spaces, m \in Measures :
           /\ db[SpaceKey(s)].state = "none"
           /\ \A d \in Clients : req[d].op = "addSpace" => req[d].space # s
           /\ Accepted(c, [NoRequest EXCEPT !.op = "addSpace", !.space = s,
                                !.measure = m, !.known = KnownProject(c)])
    BY DEF ReadForAddSpace
  <1>2. DOMAIN req = Clients /\ KnownProject(c) \in Measured
    BY KnownProjectTyped DEF IInv, Domains
  <1>3. /\ DOMAIN req' = Clients /\ UNCHANGED <<db, tx>>
        /\ \A d \in Clients \ {c} : req'[d] = req[d]
        /\ req'[c] = [op |-> "addSpace", at |-> "state", space |-> s, measure |-> m,
                      scopeOf |-> 0, version |-> 0, revision |-> 0,
                      known |-> KnownProject(c)]
    BY <1>1, <1>2 DEF Accepted, NoRequest
  <1>4. /\ req'[c] \in Request /\ req'[c].op = "addSpace" /\ req'[c].at = "state"
        /\ req'[c].space = s /\ req'[c].measure = m
    BY <1>2, <1>3 DEF Request, AllOperations, Steps
  <1>5. Adding(c)' /\ Updating(c)' /\ Removing(c)' /\ Saving(c)'
    BY <1>1, <1>3, <1>4 DEF Adding, Updating, Removing, Saving
  <1>6. SentBy(c) /\ req[c].op = "none"
    BY SendingBy DEF ReadForAddSpace, Sending
  <1> QED
    BY <1>1, <1>3, <1>4, <1>5, <1>6, AcceptedSound

LEMMA ReadForUpdateSpaceKeeps ==
    ASSUME IInv, NEW c \in Clients, ReadForUpdateSpace(c)
    PROVE  IInv' /\ Evolves
  <1>1. PICK s \in LiveSpaces(c), m \in Measures :
           Accepted(c, [NoRequest EXCEPT !.op = "updateSpace", !.space = s,
                                         !.measure = m])
    BY DEF ReadForUpdateSpace
  <1>2. DOMAIN req = Clients /\ s \in Spaces
    BY DEF IInv, Domains, LiveSpaces
  <1>3. /\ DOMAIN req' = Clients /\ UNCHANGED <<db, tx>>
        /\ \A d \in Clients \ {c} : req'[d] = req[d]
        /\ req'[c] = [op |-> "updateSpace", at |-> "state", space |-> s, measure |-> m,
                      scopeOf |-> 0, version |-> 0, revision |-> 0,
                      known |-> Nothing]
    BY <1>1, <1>2 DEF Accepted, NoRequest
  <1>4. /\ req'[c] \in Request /\ req'[c].op = "updateSpace" /\ req'[c].at = "state"
        /\ req'[c].space = s /\ req'[c].measure = m
    BY <1>2, <1>3, NothingTyped DEF Request, AllOperations, Steps
  <1>5. Adding(c)' /\ Updating(c)' /\ Removing(c)' /\ Saving(c)'
    BY <1>2, <1>3, <1>4 DEF Adding, Updating, Removing, Saving
  <1>6. SentBy(c) /\ req[c].op = "none"
    BY SendingBy DEF ReadForUpdateSpace, Sending
  <1> QED
    BY <1>3, <1>4, <1>5, <1>6, AcceptedSound

LEMMA ReadForDeleteSpaceKeeps ==
    ASSUME IInv, NEW c \in Clients, ReadForDeleteSpace(c)
    PROVE  IInv' /\ Evolves
  <1>1. PICK s \in Spaces :
           /\ MayDelete(c, s)
           /\ Accepted(c, [NoRequest EXCEPT !.op = "deleteSpace", !.space = s])
    BY DEF ReadForDeleteSpace
  <1>2. DOMAIN req = Clients /\ db[SpaceKey(s)].state # "none"
    BY <1>1, NothingHeld
    DEF IInv, Domains, MayDelete, LiveSpaces, ReadForDeleteSpace, Sending
  <1>3. /\ DOMAIN req' = Clients /\ UNCHANGED <<db, tx>>
        /\ \A d \in Clients \ {c} : req'[d] = req[d]
        /\ req'[c] = [op |-> "deleteSpace", at |-> "state", space |-> s,
                      measure |-> None, scopeOf |-> 0, version |-> 0,
                      revision |-> 0, known |-> Nothing]
    BY <1>1, <1>2 DEF Accepted, NoRequest
  <1>4. /\ req'[c] \in Request /\ req'[c].op = "deleteSpace" /\ req'[c].at = "state"
        /\ req'[c].space = s /\ req'[c].version = 0
    BY <1>2, <1>3, NothingTyped DEF Request, AllOperations, Steps
  <1>5. Adding(c)' /\ Updating(c)' /\ Removing(c)' /\ Saving(c)'
    BY <1>2, <1>3, <1>4 DEF Adding, Updating, Removing, Saving
  <1>6. SentBy(c) /\ req[c].op = "none"
    BY SendingBy DEF ReadForDeleteSpace, Sending
  <1> QED
    BY <1>3, <1>4, <1>5, <1>6, AcceptedSound

LEMMA OpenQuotationKeeps ==
    ASSUME IInv, NEW c \in Clients, OpenQuotation(c)
    PROVE  IInv' /\ Evolves
  <1>1. DOMAIN req = Clients /\ KnownProject(c) \in Measured
    BY KnownProjectTyped DEF IInv, Domains
  <1>2. /\ DOMAIN req' = Clients /\ UNCHANGED <<db, tx>>
        /\ \A d \in Clients \ {c} : req'[d] = req[d]
        /\ req'[c] = [op |-> "getOrCreateDraft", at |-> "openDraft", space |-> None,
                      measure |-> None, scopeOf |-> 0, version |-> 0,
                      revision |-> 0, known |-> KnownProject(c)]
    BY <1>1 DEF OpenQuotation, NoRequest
  <1>3. /\ req'[c] \in Request /\ req'[c].op = "getOrCreateDraft"
        /\ req'[c].at = "openDraft"
    BY <1>1, <1>2 DEF Request, AllOperations, Steps
  <1>4. Adding(c)' /\ Updating(c)' /\ Removing(c)' /\ Saving(c)'
    BY <1>3 DEF Adding, Updating, Removing, Saving
  <1>5. SentBy(c) /\ req[c].op = "none"
    BY SendingBy DEF OpenQuotation, Sending
  <1> QED
    BY <1>2, <1>3, <1>4, <1>5, AcceptedSound

LEMMA ReadLineKeeps ==
    ASSUME IInv, NEW c \in Clients, ReadLine(c)
    PROVE  IInv' /\ Evolves
  <1> DEFINE v == Draft(c)
             known == [s \in Spaces |-> IF HasScope(c, v, s)
                          THEN Sees(c, ScopeKey(v, s)).area ELSE None]
             rev == Sees(c, HeaderKey(v)).revision
  <1>1. /\ DOMAIN req = Clients /\ RowsTyped
        /\ v \in Versions /\ v # 0 /\ Drafted(v)
        /\ \A k : Sees(c, k) = db[k]
    BY DraftFound, NothingHeld DEF IInv, Domains, ReadLine, Sending
  <1>2. rev \in Nat /\ rev = db[HeaderKey(v)].revision
    BY <1>1 DEF RowsTyped, HeaderRow
  <1>3. \A s \in Spaces : HasScope(c, v, s) => Sees(c, ScopeKey(v, s)).area \in Measures
    BY <1>1, SeesTyped DEF HasScope, ScopeRow
  <1>4. /\ known \in Measured
        /\ \A s \in Spaces : known[s] # None <=> db[ScopeKey(v, s)] # NoScope
    BY <1>1, <1>3, ConstantsAssumption DEF Measured, HasScope
  <1>5. /\ DOMAIN req' = Clients /\ UNCHANGED <<db, tx>>
        /\ \A d \in Clients \ {c} : req'[d] = req[d]
        /\ req'[c] = [op |-> "updateLine", at |-> "saveHeader", space |-> None,
                      measure |-> None, scopeOf |-> 0, version |-> v,
                      revision |-> rev, known |-> known]
    BY <1>1 DEF ReadLine, NoRequest
  <1> HIDE DEF v, known, rev
  <1>6. /\ req'[c] \in Request /\ req'[c].op = "updateLine"
        /\ req'[c].at = "saveHeader" /\ req'[c].version = v
        /\ req'[c].revision = rev /\ req'[c].known = known
    BY <1>1, <1>2, <1>4, <1>5 DEF Request, AllOperations, Steps
  <1>7. Adding(c)' /\ Updating(c)' /\ Removing(c)'
    BY <1>6 DEF Adding, Updating, Removing
  <1>8. Saving(c)'
    BY <1>1, <1>2, <1>4, <1>5, <1>6 DEF Saving, Exists, Drafted, IsDraftIn
  <1>9. SentBy(c) /\ req[c].op = "none"
    BY SendingBy DEF ReadLine, Sending
  <1> QED
    BY <1>5, <1>6, <1>7, <1>8, <1>9, AcceptedSound

-----------------------------------------------------------------------------
(* updateSpace.                                                            *)

LEMMA AssertSpaceAdjustableKeeps ==
    ASSUME IInv, NEW c \in Clients, AssertSpaceAdjustable(c)
    PROVE  IInv' /\ Evolves
  <1>1. SentBy(c)
    BY UnsentBy DEF AssertSpaceAdjustable
  <1>2. CASE RolledBack(c)
    BY <1>1, <1>2, RollbackKeepsInvariant
  <1>3. CASE ~RolledBack(c)
    <2> DEFINE next == CASE req[c].op = "addSpace" -> "insert"
                         [] req[c].op = "updateSpace" -> "row"
                         [] req[c].op = "deleteSpace" -> "findHeader"
    <2>1. /\ req[c].at = "state" /\ Proceeds(c, next) /\ UNCHANGED <<db, tx>>
          /\ Sound(c) /\ Domains
      BY <1>3 DEF AssertSpaceAdjustable, IInv
    <2>2. req[c].op \in {"addSpace", "updateSpace", "deleteSpace"}
      BY <2>1 DEF Sound, Stands
    <2>3. /\ req[c].op = "addSpace" => next = "insert"
          /\ req[c].op = "updateSpace" => next = "row"
          /\ req[c].op = "deleteSpace" => next = "findHeader"
          /\ next \in Steps
      BY <2>2 DEF Steps
    <2> HIDE DEF next
    <2>4. /\ DOMAIN req' = Clients /\ \A d \in Clients \ {c} : req'[d] = req[d]
          /\ req'[c] \in Request /\ req'[c].at = next
          /\ req'[c].op = req[c].op /\ req'[c].space = req[c].space
          /\ req'[c].measure = req[c].measure
          /\ req'[c].version = req[c].version
      BY <2>1, <2>3, ProceedsTo
    <2>5. DOMAIN tx[c] = {}
      BY <2>1 DEF Sound, Stands, BeforeWriting
    <2>6. SpacesHeld(c)' /\ HeadersHeld(c)' /\ ScopesHeld(c)'
      BY <2>1, <2>5 DEF SpacesHeld, HeadersHeld, ScopesHeld, Holds
    <2>7. Stands(c)'
      BY <2>1, <2>2, <2>3, <2>4, <2>5 DEF Stands
    <2>8. Adding(c)' /\ Updating(c)' /\ Removing(c)' /\ Saving(c)'
      BY <2>1, <2>2, <2>3, <2>4 DEF Sound, Adding, Updating, Removing, Saving
    <2>9. Sound(c)'
      BY <1>1, <2>1, <2>4, <2>5, <2>6, <2>7, <2>8 DEF Sound, SentBy
    <2>10. req'[c].op = "addSpace" =>
              \A d \in Clients \ {c} :
                 req[d].op = "addSpace" => req[d].space # req'[c].space
      BY <2>4 DEF IInv, AddersApart
    <2> QED
      BY <1>1, <2>1, <2>4, <2>9, <2>10, StatementKeepsInvariant DEF Domains
  <1> QED
    BY <1>2, <1>3

\* What a statement of updateSpace has to show.
LEMMA UpdatingSound ==
    ASSUME IInv, NEW c \in Clients, UNCHANGED db, SentBy(c),
           req[c].op = "updateSpace",
           DOMAIN tx' = Clients, DOMAIN req' = Clients,
           \A d \in Clients \ {c} : tx'[d] = tx[d] /\ req'[d] = req[d],
           req'[c] \in Request, req'[c].op = "updateSpace",
           req'[c].at \in {"findDraft", "area", "quantity", "amount", "subtotal",
                           "sum", "totals"},
           DOMAIN tx'[c] \subseteq Keys,
           \A k \in DOMAIN tx'[c] :
              k \in DOMAIN tx[c] \/ \A d \in Clients \ {c} : k \notin DOMAIN tx[d],
           \A v \in Versions : HeaderKey(v) \notin DOMAIN tx'[c],
           SpacesHeld(c)', ScopesHeld(c)', Updating(c)'
    PROVE  IInv' /\ Evolves
  <1>1. HeadersHeld(c)' /\ Stands(c)'
    BY DEF HeadersHeld, Holds, Stands, BeforeWriting
  <1>2. Adding(c)' /\ Removing(c)' /\ Saving(c)'
    BY DEF Adding, Removing, Saving
  <1>3. Sound(c)'
    BY <1>1, <1>2 DEF Sound, SentBy
  <1> QED
    BY <1>3, StatementKeepsInvariant

LEMMA UpdateSpaceRowKeeps ==
    ASSUME IInv, NEW c \in Clients, UpdateSpaceRow(c)
    PROVE  IInv' /\ Evolves
  <1> DEFINE s == req[c].space
             k == SpaceKey(req[c].space)
             row == [Sees(c, k) EXCEPT !.measure = req[c].measure]
  <1>1. SentBy(c)
    BY UnsentBy DEF UpdateSpaceRow, Runs
  <1>2. CASE RolledBack(c)
    BY <1>1, <1>2, RollbackKeepsInvariant
  <1>3. CASE ~RolledBack(c)
    <2>1. /\ req[c].op = "updateSpace" /\ req[c].at = "row"
          /\ Sees(c, k).state = "live"
          /\ Writes(c, Row(k, row)) /\ Proceeds(c, "findDraft") /\ UNCHANGED db
          /\ \A d \in Clients : ~WaitsFor(c, d)
          /\ Updating(c) /\ RowsTyped
      BY <1>3 DEF UpdateSpaceRow, Runs, IInv, Sound
    <2>2. s \in Spaces /\ req[c].measure \in Measures
      BY <2>1 DEF Updating
    <2>3. DOMAIN tx[c] = {} /\ \A x : Sees(c, x) = db[x]
      BY <2>1, NothingHeld DEF BeforeWriting
    <2>4. row \in SpaceRow /\ row.state = "live" /\ db[k].state = "live"
      BY <2>1, <2>2, <2>3 DEF RowsTyped, SpaceRow
    <2>5. Wants(c) = {k}
      BY <2>1 DEF Wants
    <2>6. \A d \in Clients \ {c} : k \notin DOMAIN tx[d]
      BY <2>1, <2>5, Locked
    <2> HIDE DEF row
    <2>7. /\ DOMAIN tx' = Clients /\ \A d \in Clients \ {c} : tx'[d] = tx[d]
          /\ DOMAIN tx'[c] = {k} /\ tx'[c][k] = row
      BY <2>1, <2>3, RowWritten
    <2>8. /\ DOMAIN req' = Clients /\ \A d \in Clients \ {c} : req'[d] = req[d]
          /\ req'[c] \in Request /\ req'[c].at = "findDraft"
          /\ req'[c].op = req[c].op /\ req'[c].space = s
          /\ req'[c].measure = req[c].measure
      BY <2>1, ProceedsTo DEF Steps
    <2>9. DOMAIN tx'[c] \subseteq Keys
      BY <2>2, <2>7, KeysExist
    <2>10. /\ \A t \in Spaces : SpaceKey(t) \in DOMAIN tx'[c] => t = s
           /\ \A v \in Versions : HeaderKey(v) \notin DOMAIN tx'[c]
           /\ \A v \in Versions, t \in Spaces : ScopeKey(v, t) \notin DOMAIN tx'[c]
      BY <2>2, <2>7, KeysDiffer
    <2>11. SpacesHeld(c)'
      BY <2>1, <2>4, <2>7, <2>10 DEF SpacesHeld, Holds
    <2>12. ScopesHeld(c)'
      BY <2>10 DEF ScopesHeld, Holds
    <2>13. Updating(c)'
      BY <2>1, <2>2, <2>4, <2>7, <2>8, <2>10 DEF Updating, Holds
    <2> QED
      BY <1>1, <2>1, <2>6, <2>7, <2>8, <2>9, <2>10, <2>11, <2>12, <2>13, UpdatingSound
  <1> QED
    BY <1>2, <1>3

LEMMA FindDraftOfScopeKeeps ==
    ASSUME IInv, NEW c \in Clients, FindDraftOfScope(c)
    PROVE  IInv' /\ Evolves
  <1> DEFINE s == req[c].space
             found == IF HasScope(c, Draft(c), s) THEN Draft(c) ELSE 0
  <1>1. /\ SentBy(c) /\ UNCHANGED <<db, tx>>
        /\ req[c].op = "updateSpace" /\ req[c].at = "findDraft"
        /\ Updating(c) /\ SpacesHeld(c) /\ ScopesHeld(c) /\ HeadersHeld(c)
        /\ req[c] \in Request /\ DOMAIN req = Clients /\ DOMAIN tx = Clients
        /\ DOMAIN tx[c] \subseteq Keys
    BY UnsentBy DEF FindDraftOfScope, Runs, IInv, Sound, Domains
  <1>2. s \in Spaces
    BY <1>1 DEF Updating
  <1>3. /\ found \in Versions \cup {0}
        /\ found # 0 => db[ScopeKey(found, s)] # NoScope
    <2>1. Draft(c) \in Versions \cup {0}
      BY DraftFound
    <2> HIDE DEF s
    <2> QED
      BY <1>2, <2>1, SeesScopes DEF HasScope
  <1> HIDE DEF found
  <1>4. /\ DOMAIN req' = Clients /\ \A d \in Clients \ {c} : req'[d] = req[d]
        /\ req'[c] = [req[c] EXCEPT !.at = "area", !.scopeOf = found]
    BY <1>1 DEF FindDraftOfScope, found
  <1>5. /\ req'[c] \in Request /\ req'[c].at = "area" /\ req'[c].scopeOf = found
        /\ req'[c].op = req[c].op /\ req'[c].space = s
        /\ req'[c].measure = req[c].measure
    BY <1>1, <1>3, <1>4 DEF Request, Steps
  <1>6. \A v \in Versions : HeaderKey(v) \notin DOMAIN tx[c]
    BY <1>1 DEF HeadersHeld, Holds
  <1>7. SpacesHeld(c)' /\ ScopesHeld(c)'
    BY <1>1, <1>5 DEF SpacesHeld, ScopesHeld, Holds
  <1>8. Updating(c)'
    BY <1>1, <1>3, <1>5 DEF Updating, Holds
  <1> QED
    BY <1>1, <1>4, <1>5, <1>6, <1>7, <1>8, UpdatingSound

LEMMA UpdateScopeAreaKeeps ==
    ASSUME IInv, NEW c \in Clients, UpdateScopeArea(c)
    PROVE  IInv' /\ Evolves
  <1> DEFINE v == req[c].scopeOf
             s == req[c].space
             k == ScopeKey(v, s)
             row == [Sees(c, k) EXCEPT !.area = req[c].measure]
  <1>1. SentBy(c)
    BY UnsentBy DEF UpdateScopeArea, Runs
  <1>2. CASE RolledBack(c)
    BY <1>1, <1>2, RollbackKeepsInvariant
  <1>3. CASE ~RolledBack(c)
    <2>1. /\ req[c].op = "updateSpace" /\ req[c].at = "area"
          /\ IF HasScope(c, v, s) THEN Writes(c, Row(k, row)) ELSE UNCHANGED tx
          /\ Proceeds(c, "quantity") /\ UNCHANGED db
          /\ \A d \in Clients : ~WaitsFor(c, d)
          /\ Updating(c) /\ SpacesHeld(c) /\ ScopesHeld(c) /\ HeadersHeld(c)
          /\ req[c] \in Request /\ DOMAIN tx[c] \subseteq Keys /\ DOMAIN tx = Clients
      BY <1>3 DEF UpdateScopeArea, Runs, IInv, Sound, Domains
    <2>2. /\ s \in Spaces /\ req[c].measure \in Measures /\ v \in Versions \cup {0}
          /\ SpaceKey(s) \in DOMAIN tx[c] /\ tx[c][SpaceKey(s)].state = "live"
          /\ \A w \in Versions : ScopeKey(w, s) \notin DOMAIN tx[c]
          /\ v # 0 => db[k] # NoScope
      BY <2>1 DEF Updating, Request, Holds
    <2>3. /\ DOMAIN req' = Clients /\ \A d \in Clients \ {c} : req'[d] = req[d]
          /\ req'[c] \in Request /\ req'[c].at = "quantity"
          /\ req'[c].op = req[c].op /\ req'[c].space = s
          /\ req'[c].measure = req[c].measure /\ req'[c].scopeOf = v
      BY <2>1, ProceedsTo DEF Steps
    <2>4. CASE v = 0
      <3>1. UNCHANGED tx
        BY <2>1, <2>4 DEF HasScope
      <3>2. \A w \in Versions : HeaderKey(w) \notin DOMAIN tx[c]
        BY <2>1 DEF HeadersHeld, Holds
      <3>3. SpacesHeld(c)' /\ ScopesHeld(c)'
        BY <2>1, <2>3, <3>1 DEF SpacesHeld, ScopesHeld, Holds
      <3>4. Updating(c)'
        BY <2>1, <2>2, <2>3, <2>4, <3>1 DEF Updating, Holds
      <3> QED
        BY <1>1, <2>1, <2>3, <3>1, <3>2, <3>3, <3>4, UpdatingSound
    <2>5. CASE v # 0
      <3>1. /\ v \in Versions /\ Sees(c, k) = db[k] /\ db[k] # NoScope
            /\ HasScope(c, v, s)
        BY <2>2, <2>5 DEF Sees, HasScope
      <3>2. row \in ScopeRow /\ row.area = req[c].measure
        BY <2>2, <3>1, SeesTyped DEF ScopeRow
      <3> HIDE DEF row
      <3>3. /\ DOMAIN tx' = Clients /\ \A d \in Clients \ {c} : tx'[d] = tx[d]
            /\ DOMAIN tx'[c] = DOMAIN tx[c] \cup {k}
            /\ \A x \in DOMAIN tx'[c] : tx'[c][x] = IF x = k THEN row ELSE tx[c][x]
        BY <2>1, <3>1, RowWritten
      <3>4. Wants(c) = {k}
        BY <2>1, <2>5 DEF Wants
      <3>5. \A d \in Clients \ {c} : k \notin DOMAIN tx[d]
        BY <2>1, <3>4, Locked
      <3>6. /\ DOMAIN tx'[c] \subseteq Keys
            /\ \A t \in Spaces : SpaceKey(t) # k
            /\ \A w \in Versions : HeaderKey(w) # k
            /\ \A w \in Versions, t \in Spaces : ScopeKey(w, t) = k => w = v /\ t = s
        BY <2>1, <2>2, <3>1, <3>3, KeysExist, KeysDiffer
      <3> HIDE DEF k
      <3>7. \A w \in Versions : HeaderKey(w) \notin DOMAIN tx'[c]
        BY <2>1, <3>3, <3>6 DEF HeadersHeld, Holds
      <3>8. SpacesHeld(c)'
        BY <2>1, <2>3, <3>3, <3>6 DEF SpacesHeld, Holds
      <3>9. ScopesHeld(c)'
        BY <2>1, <2>2, <2>3, <3>1, <3>2, <3>3, <3>6, ScopeRows DEF ScopesHeld, Holds, k
      <3>10. Updating(c)'
        BY <2>1, <2>2, <2>3, <3>1, <3>2, <3>3, <3>6 DEF Updating, Written, Holds, k
      <3> QED
        BY <1>1, <2>1, <2>3, <3>3, <3>5, <3>6, <3>7, <3>8, <3>9, <3>10, UpdatingSound
    <2> QED
      BY <2>4, <2>5
  <1> QED
    BY <1>2, <1>3

\* A statement on the scope of whatever draft it finds: the row it writes goes
\* on with the new measure where the row before had it.
LEMMA ScopeStatement ==
    ASSUME IInv, NEW c \in Clients, NEW new, NEW at,
           req[c].op = "updateSpace",
           \/ req[c].at = "quantity" /\ at = "amount"
           \/ req[c].at = "amount" /\ at = "subtotal"
           \/ req[c].at = "subtotal" /\ at = "sum",
           \A d \in Clients : ~WaitsFor(c, d),
           UNCHANGED <<db, sent>>, Proceeds(c, at),
           HasScope(c, Draft(c), req[c].space) =>
              /\ Writes(c, Row(ScopeKey(Draft(c), req[c].space), new))
              /\ new \in ScopeRow
              /\ Written(req[c], Sees(c, ScopeKey(Draft(c), req[c].space))) =>
                    Written([req[c] EXCEPT !.at = at], new),
           ~HasScope(c, Draft(c), req[c].space) => UNCHANGED tx
    PROVE  IInv' /\ Evolves
  <1> DEFINE s == req[c].space
             v == Draft(c)
             k == ScopeKey(v, s)
  <1>1. /\ SentBy(c) /\ Updating(c) /\ SpacesHeld(c) /\ ScopesHeld(c) /\ HeadersHeld(c)
        /\ req[c] \in Request /\ DOMAIN tx[c] \subseteq Keys /\ DOMAIN tx = Clients
    BY UnsentBy DEF IInv, Sound, Domains
  <1>2. /\ s \in Spaces /\ req[c].measure \in Measures
        /\ SpaceKey(s) \in DOMAIN tx[c] /\ tx[c][SpaceKey(s)].state = "live"
        /\ req[c].scopeOf \in Versions \cup {0}
        /\ req[c].scopeOf # 0 =>
              /\ ScopeKey(req[c].scopeOf, s) \in DOMAIN tx[c]
              /\ Drafted(req[c].scopeOf) =>
                    Written(req[c], tx[c][ScopeKey(req[c].scopeOf, s)])
    BY <1>1 DEF Updating, Request, Holds
  <1>3. /\ at \in Steps /\ at \in {"amount", "subtotal", "sum"}
        /\ v \in Versions \cup {0}
    BY DraftFound DEF Steps
  <1>4. /\ DOMAIN req' = Clients /\ \A d \in Clients \ {c} : req'[d] = req[d]
        /\ req'[c] \in Request /\ req'[c].at = at
        /\ req'[c].op = req[c].op /\ req'[c].space = s
        /\ req'[c].measure = req[c].measure /\ req'[c].scopeOf = req[c].scopeOf
    BY <1>3, ProceedsTo
  <1>5. req'[c] = [req[c] EXCEPT !.at = at]
    BY DEF Proceeds, IInv, Domains
  <1>6. Drafted(req[c].scopeOf) /\ req[c].scopeOf # 0 =>
           v = req[c].scopeOf /\ HasScope(c, v, s)
    <2> SUFFICES ASSUME Drafted(req[c].scopeOf), req[c].scopeOf # 0
                 PROVE  v = req[c].scopeOf /\ HasScope(c, v, s)
      OBVIOUS
    <2>1. v = req[c].scopeOf
      BY <1>2, DraftFound
    <2>2. ScopeKey(v, s) \in DOMAIN tx[c] /\ v \in Versions
      BY <1>2, <2>1
    <2>3. tx[c][ScopeKey(v, s)] # NoScope
      BY <1>1, <1>2, <2>2 DEF ScopesHeld, Holds
    <2> QED
      BY <2>1, <2>2, <2>3 DEF HasScope, Sees, Versions
  <1> HIDE DEF v
  <1>7. CASE ~HasScope(c, v, s)
    <2>1. UNCHANGED tx
      BY <1>7 DEF v
    <2>2. \A w \in Versions : HeaderKey(w) \notin DOMAIN tx[c]
      BY <1>1 DEF HeadersHeld, Holds
    <2>3. SpacesHeld(c)' /\ ScopesHeld(c)'
      BY <1>1, <1>4, <2>1 DEF SpacesHeld, ScopesHeld, Holds
    <2>4. Updating(c)'
      BY <1>2, <1>3, <1>4, <1>6, <1>7, <2>1 DEF Updating, Holds, Drafted
    <2> QED
      BY <1>1, <1>3, <1>4, <2>1, <2>2, <2>3, <2>4, UpdatingSound
  <1>8. CASE HasScope(c, v, s)
    <2>1. /\ Writes(c, Row(k, new)) /\ new \in ScopeRow
          /\ Written(req[c], Sees(c, k)) => Written(req'[c], new)
          /\ v \in Versions /\ v # 0 /\ db[k] # NoScope
      BY <1>2, <1>3, <1>5, <1>8, SeesScopes DEF v, HasScope
    <2>2. /\ DOMAIN tx' = Clients /\ \A d \in Clients \ {c} : tx'[d] = tx[d]
          /\ DOMAIN tx'[c] = DOMAIN tx[c] \cup {k}
          /\ \A x \in DOMAIN tx'[c] : tx'[c][x] = IF x = k THEN new ELSE tx[c][x]
      BY <2>1, RowWritten
    <2>3. Wants(c) = {k}
      BY <2>1 DEF Wants, v
    <2>4. \A d \in Clients \ {c} : k \notin DOMAIN tx[d]
      BY <2>3, Locked
    <2>5. /\ DOMAIN tx'[c] \subseteq Keys
          /\ \A t \in Spaces : SpaceKey(t) # k
          /\ \A w \in Versions : HeaderKey(w) # k
          /\ \A w \in Versions, t \in Spaces : ScopeKey(w, t) = k => w = v /\ t = s
      BY <1>1, <1>2, <2>1, <2>2, KeysExist, KeysDiffer
    <2>6. \A w \in Versions : HeaderKey(w) \notin DOMAIN tx'[c]
      BY <1>1, <2>2, <2>5 DEF HeadersHeld, Holds
    <2>7. req[c].scopeOf # 0 /\ Drafted(req[c].scopeOf) =>
             Written(req'[c], tx'[c][ScopeKey(req[c].scopeOf, s)])
      BY <1>2, <1>6, <2>1, <2>2 DEF Sees
    <2> HIDE DEF k
    <2>8. SpacesHeld(c)'
      BY <1>1, <1>4, <2>2, <2>5 DEF SpacesHeld, Holds
    <2>9. ScopesHeld(c)'
      BY <1>1, <1>2, <1>4, <2>1, <2>2, <2>5, ScopeRows DEF ScopesHeld, Holds, k
    <2>10. Updating(c)'
      BY <1>2, <1>3, <1>4, <2>2, <2>5, <2>7 DEF Updating, Holds, Drafted
    <2> QED
      BY <1>1, <1>3, <1>4, <2>2, <2>4, <2>5, <2>6, <2>8, <2>9, <2>10, UpdatingSound
  <1> QED
    BY <1>7, <1>8

\* The row of the scope that a statement of updateSpace finds.
LEMMA ScopeRowFound ==
    ASSUME IInv, NEW c \in Clients, req[c].op = "updateSpace",
           HasScope(c, Draft(c), req[c].space)
    PROVE  /\ Sees(c, ScopeKey(Draft(c), req[c].space)) \in ScopeRow
           /\ req[c].measure \in Measures /\ req[c] \in Request
  <1>1. Draft(c) \in Versions \cup {0}
    BY DraftFound
  <1>2. req[c].space \in Spaces /\ req[c].measure \in Measures /\ req[c] \in Request
    BY DEF IInv, Sound, Updating
  <1> QED
    BY <1>1, <1>2, SeesTyped DEF HasScope

LEMMA UpdateQuantitiesKeeps ==
    ASSUME IInv, NEW c \in Clients, UpdateQuantities(c)
    PROVE  IInv' /\ Evolves
  <1> DEFINE old == Sees(c, ScopeKey(Draft(c), req[c].space))
             new == [old EXCEPT !.quantity = req[c].measure]
  <1>1. /\ req[c].op = "updateSpace" /\ req[c].at = "quantity"
        /\ \A d \in Clients : ~WaitsFor(c, d)
        /\ UNCHANGED <<db, sent>> /\ Proceeds(c, "amount")
        /\ IF HasScope(c, Draft(c), req[c].space)
           THEN Writes(c, Row(ScopeKey(Draft(c), req[c].space), new))
           ELSE UNCHANGED tx
    BY DEF UpdateQuantities, UpdatesScope, Runs
  <1>2. HasScope(c, Draft(c), req[c].space) =>
           /\ new \in ScopeRow
           /\ Written(req[c], old) => Written([req[c] EXCEPT !.at = "amount"], new)
    BY <1>1, ScopeRowFound DEF ScopeRow, Written, Request
  <1> HIDE DEF new, old
  <1> QED
    BY <1>1, <1>2, ScopeStatement DEF old

LEMMA UpdateAmountsKeeps ==
    ASSUME IInv, NEW c \in Clients, UpdateAmounts(c)
    PROVE  IInv' /\ Evolves
  <1> DEFINE old == Sees(c, ScopeKey(Draft(c), req[c].space))
             new == [old EXCEPT !.amount = old.quantity]
  <1>1. /\ req[c].op = "updateSpace" /\ req[c].at = "amount"
        /\ \A d \in Clients : ~WaitsFor(c, d)
        /\ UNCHANGED <<db, sent>> /\ Proceeds(c, "subtotal")
        /\ IF HasScope(c, Draft(c), req[c].space)
           THEN Writes(c, Row(ScopeKey(Draft(c), req[c].space), new))
           ELSE UNCHANGED tx
    BY DEF UpdateAmounts, UpdatesScope, Runs
  <1>2. HasScope(c, Draft(c), req[c].space) =>
           /\ new \in ScopeRow
           /\ Written(req[c], old) => Written([req[c] EXCEPT !.at = "subtotal"], new)
    BY <1>1, ScopeRowFound DEF ScopeRow, Written, Request
  <1> HIDE DEF new, old
  <1> QED
    BY <1>1, <1>2, ScopeStatement DEF old

LEMMA UpdateSubtotalKeeps ==
    ASSUME IInv, NEW c \in Clients, UpdateSubtotal(c)
    PROVE  IInv' /\ Evolves
  <1> DEFINE old == Sees(c, ScopeKey(Draft(c), req[c].space))
             new == [old EXCEPT !.subtotal = old.amount]
  <1>1. /\ req[c].op = "updateSpace" /\ req[c].at = "subtotal"
        /\ \A d \in Clients : ~WaitsFor(c, d)
        /\ UNCHANGED <<db, sent>> /\ Proceeds(c, "sum")
        /\ IF HasScope(c, Draft(c), req[c].space)
           THEN Writes(c, Row(ScopeKey(Draft(c), req[c].space), new))
           ELSE UNCHANGED tx
    BY DEF UpdateSubtotal, UpdatesScope, Runs
  <1>2. HasScope(c, Draft(c), req[c].space) =>
           /\ new \in ScopeRow
           /\ Written(req[c], old) => Written([req[c] EXCEPT !.at = "sum"], new)
    BY <1>1, ScopeRowFound DEF ScopeRow, Written, Request
  <1> HIDE DEF new, old
  <1> QED
    BY <1>1, <1>2, ScopeStatement DEF old

LEMMA SumScopesKeeps ==
    ASSUME IInv, NEW c \in Clients, SumScopes(c)
    PROVE  IInv' /\ Evolves
  <1> DEFINE s == req[c].space
             v == Draft(c)
             sums == Sums(c, v)
  <1>1. /\ SentBy(c) /\ UNCHANGED <<db, tx>>
        /\ req[c].op = "updateSpace" /\ req[c].at = "sum"
        /\ Updating(c) /\ SpacesHeld(c) /\ ScopesHeld(c) /\ HeadersHeld(c)
        /\ req[c] \in Request /\ DOMAIN req = Clients /\ DOMAIN tx = Clients
        /\ DOMAIN tx[c] \subseteq Keys
    BY UnsentBy DEF SumScopes, Runs, IInv, Sound, Domains
  <1>2. s \in Spaces /\ req[c].scopeOf \in Versions \cup {0}
    BY <1>1 DEF Updating, Request
  <1>3. /\ v \in Versions \cup {0} /\ sums \in Measured
        /\ \A w \in Versions : Drafted(w) => v = w
    BY DraftFound, ScopesSummed
  <1>4. \A w \in Versions : Drafted(w) /\ ScopeKey(w, s) \in DOMAIN tx[c] =>
           w = v /\ sums[s] = tx[c][ScopeKey(w, s)].subtotal
    <2> SUFFICES ASSUME NEW w \in Versions, Drafted(w), ScopeKey(w, s) \in DOMAIN tx[c]
                 PROVE  w = v /\ sums[s] = tx[c][ScopeKey(w, s)].subtotal
      OBVIOUS
    <2>1. w = v /\ w # 0
      BY <1>3 DEF Versions
    <2>2. tx[c][ScopeKey(w, s)] # NoScope
      BY <1>1, <1>2 DEF ScopesHeld, Holds
    <2> QED
      BY <1>2, <2>1, <2>2 DEF Sums, HasScope, Sees
  <1> HIDE DEF v, sums
  <1>5. /\ DOMAIN req' = Clients /\ \A d \in Clients \ {c} : req'[d] = req[d]
        /\ req'[c] = [req[c] EXCEPT !.version = v, !.at = "totals", !.known = sums]
    BY <1>1 DEF SumScopes, v, sums
  <1>6. /\ req'[c] \in Request /\ req'[c].at = "totals" /\ req'[c].version = v
        /\ req'[c].known = sums /\ req'[c].scopeOf = req[c].scopeOf
        /\ req'[c].op = req[c].op /\ req'[c].space = s
        /\ req'[c].measure = req[c].measure
    BY <1>1, <1>3, <1>5 DEF Request, Steps
  <1>7. \A w \in Versions : HeaderKey(w) \notin DOMAIN tx[c]
    BY <1>1 DEF HeadersHeld, Holds
  <1>8. SpacesHeld(c)' /\ ScopesHeld(c)'
    BY <1>1, <1>6 DEF SpacesHeld, ScopesHeld, Holds
  <1>9. Updating(c)'
    BY <1>1, <1>2, <1>4, <1>6 DEF Updating, Written, Holds, Drafted
  <1> QED
    BY <1>1, <1>5, <1>6, <1>7, <1>8, <1>9, UpdatingSound

-----------------------------------------------------------------------------
(* deleteSpace.                                                            *)

\* What a statement of deleteSpace has to show.
LEMMA RemovingSound ==
    ASSUME IInv, NEW c \in Clients, UNCHANGED db, SentBy(c),
           DOMAIN tx' = Clients, DOMAIN req' = Clients,
           \A d \in Clients \ {c} : tx'[d] = tx[d] /\ req'[d] = req[d],
           req'[c] \in Request, req'[c].op = "deleteSpace",
           \/ req'[c].at = "lockHeader" /\ DOMAIN tx'[c] = {}
           \/ req'[c].at \in {"softDelete", "dropScope", "reorder", "resum", "shift",
                              "renumber"},
           DOMAIN tx'[c] \subseteq Keys,
           \A k \in DOMAIN tx'[c] :
              k \in DOMAIN tx[c] \/ \A d \in Clients \ {c} : k \notin DOMAIN tx[d],
           SpacesHeld(c)', HeadersHeld(c)', ScopesHeld(c)', Removing(c)'
    PROVE  IInv' /\ Evolves
  <1>1. Stands(c)'
    BY DEF Stands, BeforeWriting
  <1>2. Adding(c)' /\ Updating(c)' /\ Saving(c)'
    BY DEF Adding, Updating, Saving
  <1>3. Sound(c)'
    BY <1>1, <1>2 DEF Sound, SentBy
  <1> QED
    BY <1>3, StatementKeepsInvariant

LEMMA FindHeaderKeeps ==
    ASSUME IInv, NEW c \in Clients, FindHeader(c)
    PROVE  IInv' /\ Evolves
  <1> DEFINE found == IF CurrentVersions(c) = {} THEN 0
                      ELSE CHOOSE v \in CurrentVersions(c) : TRUE
  <1>1. /\ SentBy(c) /\ UNCHANGED <<db, tx>>
        /\ req[c].op = "deleteSpace" /\ req[c].at = "findHeader"
        /\ Removing(c) /\ req[c] \in Request
        /\ DOMAIN req = Clients /\ DOMAIN tx = Clients /\ DOMAIN tx[c] = {}
    BY UnsentBy, NothingHeld DEF FindHeader, Runs, IInv, Sound, Domains, BeforeWriting
  <1>2. found \in Versions \cup {0}
    BY DEF CurrentVersions
  <1> HIDE DEF found
  <1>3. /\ DOMAIN req' = Clients /\ \A d \in Clients \ {c} : req'[d] = req[d]
        /\ req'[c] = [req[c] EXCEPT !.at = "lockHeader", !.version = found]
    BY <1>1 DEF FindHeader, found
  <1>4. /\ req'[c] \in Request /\ req'[c].at = "lockHeader"
        /\ req'[c].op = "deleteSpace" /\ req'[c].space = req[c].space
    BY <1>1, <1>2, <1>3 DEF Request, Steps
  <1>5. SpacesHeld(c)' /\ HeadersHeld(c)' /\ ScopesHeld(c)'
    BY <1>1 DEF SpacesHeld, HeadersHeld, ScopesHeld, Holds
  <1>6. Removing(c)'
    BY <1>1, <1>4 DEF Removing
  <1> QED
    BY <1>1, <1>3, <1>4, <1>5, <1>6, RemovingSound

LEMMA LockHeaderKeeps ==
    ASSUME IInv, NEW c \in Clients, LockHeader(c)
    PROVE  IInv' /\ Evolves
  <1> DEFINE v == req[c].version
             k == HeaderKey(req[c].version)
             row == Sees(c, k)
  <1>1. /\ SentBy(c) /\ req[c].op = "deleteSpace" /\ req[c].at = "lockHeader"
        /\ Removing(c) /\ req[c] \in Request /\ RowsTyped
        /\ DOMAIN req = Clients /\ DOMAIN tx = Clients
        /\ DOMAIN tx[c] = {} /\ \A x : Sees(c, x) = db[x]
        /\ \A d \in Clients : ~WaitsFor(c, d)
    BY UnsentBy, NothingHeld
    DEF LockHeader, Runs, IInv, Sound, Domains, BeforeWriting
  <1>2. v \in Versions \cup {0}
    BY <1>1 DEF Request
  <1>3. CASE RolledBack(c)
    BY <1>1, <1>3, RollbackKeepsInvariant
  <1>4. CASE /\ req' = [req EXCEPT ![c].version = 0, ![c].at = "softDelete"]
             /\ UNCHANGED <<db, tx>>
    <2>1. /\ DOMAIN req' = Clients /\ \A d \in Clients \ {c} : req'[d] = req[d]
          /\ req'[c] = [req[c] EXCEPT !.version = 0, !.at = "softDelete"]
      BY <1>1, <1>4
    <2>2. /\ req'[c] \in Request /\ req'[c].at = "softDelete" /\ req'[c].version = 0
          /\ req'[c].op = "deleteSpace" /\ req'[c].space = req[c].space
      BY <1>1, <2>1 DEF Request, Steps
    <2>3. SpacesHeld(c)' /\ HeadersHeld(c)' /\ ScopesHeld(c)'
      BY <1>1, <1>4 DEF SpacesHeld, HeadersHeld, ScopesHeld, Holds
    <2>4. Removing(c)'
      BY <1>1, <1>4, <2>2 DEF Removing
    <2> QED
      BY <1>1, <1>4, <2>1, <2>2, <2>3, <2>4, RemovingSound
  <1>5. CASE /\ v # 0 /\ row.isCurrent /\ row.status = "DRAFT"
             /\ Writes(c, Row(k, row)) /\ Proceeds(c, "softDelete") /\ UNCHANGED db
    <2>1. /\ DOMAIN req' = Clients /\ \A d \in Clients \ {c} : req'[d] = req[d]
          /\ req'[c] \in Request /\ req'[c].at = "softDelete" /\ req'[c].version = v
          /\ req'[c].op = req[c].op /\ req'[c].space = req[c].space
      BY <1>5, ProceedsTo DEF Steps
    <2>2. /\ v \in Versions /\ row = db[k] /\ row \in HeaderRow
          /\ IsDraftIn(row) /\ Drafted(v) /\ row.revision \in Nat
      BY <1>1, <1>2, <1>5 DEF RowsTyped, HeaderRow, Drafted, IsDraftIn
    <2> HIDE DEF row
    <2>3. /\ DOMAIN tx' = Clients /\ \A d \in Clients \ {c} : tx'[d] = tx[d]
          /\ DOMAIN tx'[c] = {k} /\ tx'[c][k] = row
      BY <1>1, <1>5, RowWritten
    <2>4. Wants(c) = {k}
      BY <1>1, <1>5 DEF Wants
    <2>5. \A d \in Clients \ {c} : k \notin DOMAIN tx[d]
      BY <1>1, <2>4, Locked
    <2>6. /\ DOMAIN tx'[c] \subseteq Keys
          /\ \A t \in Spaces : SpaceKey(t) \notin DOMAIN tx'[c]
          /\ \A w \in Versions : HeaderKey(w) \in DOMAIN tx'[c] => w = v
          /\ \A w \in Versions, t \in Spaces : ScopeKey(w, t) \notin DOMAIN tx'[c]
      BY <2>2, <2>3, KeysExist, KeysDiffer
    <2>7. SpacesHeld(c)' /\ ScopesHeld(c)'
      BY <2>6 DEF SpacesHeld, ScopesHeld, Holds
    <2>8. HeadersHeld(c)'
      BY <1>1, <1>5, <2>1, <2>2, <2>3, <2>6 DEF HeadersHeld, Holds, Drafted
    <2>9. Removing(c)'
      BY <1>1, <1>5, <2>1, <2>3 DEF Removing, Holds
    <2> QED
      BY <1>1, <1>5, <2>1, <2>3, <2>5, <2>6, <2>7, <2>8, <2>9, RemovingSound
  <1> QED
    BY <1>3, <1>4, <1>5 DEF LockHeader

\* Of a request for deleteSpace that has locked the header.
LEMMA RemovingHolds ==
    ASSUME IInv, NEW c \in Clients, req[c].op = "deleteSpace",
           req[c].at \in {"softDelete", "dropScope", "reorder", "resum", "shift",
                          "renumber"}
    PROVE  /\ SpacesHeld(c) /\ HeadersHeld(c) /\ ScopesHeld(c) /\ Removing(c)
           /\ req[c] \in Request /\ DOMAIN tx[c] \subseteq Keys
           /\ req[c].space \in Spaces /\ req[c].version \in Versions \cup {0}
           /\ req[c].version # 0 =>
                 /\ HeaderKey(req[c].version) \in DOMAIN tx[c]
                 /\ Drafted(req[c].version)
                 /\ db[HeaderKey(req[c].version)].revision \in Nat
                 /\ tx[c][HeaderKey(req[c].version)].revision \in Nat
           /\ req[c].at \in {"dropScope", "reorder", "resum"} =>
                 req[c].version \in Versions
           /\ req[c].at # "softDelete" =>
                 Sees(c, SpaceKey(req[c].space)).state = "deleted"
           /\ DOMAIN req = Clients /\ DOMAIN tx = Clients
  <1>1. /\ SpacesHeld(c) /\ HeadersHeld(c) /\ ScopesHeld(c) /\ Removing(c)
        /\ req[c] \in Request /\ DOMAIN tx[c] \subseteq Keys /\ RowsTyped
        /\ DOMAIN req = Clients /\ DOMAIN tx = Clients
    BY DEF IInv, Sound, Domains
  <1>2. req[c].space \in Spaces /\ req[c].version \in Versions \cup {0}
    BY <1>1 DEF Removing, Request
  <1>3. req[c].version # 0 =>
           /\ HeaderKey(req[c].version) \in DOMAIN tx[c]
           /\ req[c].version \in Versions
    BY <1>1, <1>2 DEF Removing, Holds
  <1>4. req[c].version # 0 =>
           /\ Drafted(req[c].version)
           /\ db[HeaderKey(req[c].version)].revision \in Nat
           /\ tx[c][HeaderKey(req[c].version)].revision \in Nat
    BY <1>1, <1>3 DEF HeadersHeld, Holds, RowsTyped, HeaderRow
  <1>5. req[c].at \in {"dropScope", "reorder", "resum"} => req[c].version \in Versions
    BY <1>1, <1>2 DEF Removing
  <1>6. req[c].at # "softDelete" => Sees(c, SpaceKey(req[c].space)).state = "deleted"
    BY <1>1 DEF Removing
  <1> QED
    BY <1>1, <1>2, <1>3, <1>4, <1>5, <1>6

LEMMA SoftDeleteKeeps ==
    ASSUME IInv, NEW c \in Clients, SoftDelete(c)
    PROVE  IInv' /\ Evolves
  <1> DEFINE s == req[c].space
             k == SpaceKey(req[c].space)
             row == [Sees(c, k) EXCEPT !.state = "deleted"]
             next == IF req[c].version = 0 THEN "shift" ELSE "dropScope"
  <1>1. /\ SentBy(c) /\ req[c].op = "deleteSpace" /\ req[c].at = "softDelete"
        /\ UNCHANGED db /\ Proceeds(c, next) /\ RowsTyped
        /\ \A d \in Clients : ~WaitsFor(c, d)
        /\ IF Sees(c, k).state = "live" THEN Writes(c, Row(k, row)) ELSE UNCHANGED tx
    BY UnsentBy DEF SoftDelete, Runs, IInv
  <1>2. /\ SpacesHeld(c) /\ HeadersHeld(c) /\ ScopesHeld(c) /\ Removing(c)
        /\ req[c] \in Request /\ DOMAIN tx[c] \subseteq Keys
        /\ s \in Spaces /\ req[c].version \in Versions \cup {0}
        /\ req[c].version # 0 => HeaderKey(req[c].version) \in DOMAIN tx[c]
        /\ DOMAIN req = Clients /\ DOMAIN tx = Clients
    BY <1>1, RemovingHolds
  <1>3. next \in Steps /\ next \in {"shift", "dropScope"}
        /\ (next = "shift" <=> req[c].version = 0)
    BY DEF Steps
  <1> HIDE DEF next
  <1>4. /\ DOMAIN req' = Clients /\ \A d \in Clients \ {c} : req'[d] = req[d]
        /\ req'[c] \in Request /\ req'[c].at = next
        /\ req'[c].version = req[c].version
        /\ req'[c].op = "deleteSpace" /\ req'[c].space = s
    BY <1>1, <1>3, ProceedsTo
  <1>5. Sees(c, k) \in SpaceRow /\ db[k].state # "none" /\ db[k] \in SpaceRow
    BY <1>1, <1>2, SeesTyped DEF Removing, RowsTyped
  <1>6. CASE Sees(c, k).state = "live"
    <2>1. row \in SpaceRow /\ row.state = "deleted"
      BY <1>5 DEF SpaceRow
    <2> HIDE DEF row
    <2>2. /\ DOMAIN tx' = Clients /\ \A d \in Clients \ {c} : tx'[d] = tx[d]
          /\ DOMAIN tx'[c] = DOMAIN tx[c] \cup {k}
          /\ \A x \in DOMAIN tx'[c] : tx'[c][x] = IF x = k THEN row ELSE tx[c][x]
      BY <1>1, <1>6, RowWritten
    <2>3. db[k].state = "live"
      BY <1>2, <1>6 DEF SpacesHeld, Holds, Sees
    <2>4. Wants(c) = {k}
      BY <1>1 DEF Wants
    <2>5. \A d \in Clients \ {c} : k \notin DOMAIN tx[d]
      BY <1>1, <2>4, Locked
    <2>6. /\ DOMAIN tx'[c] \subseteq Keys /\ k \in DOMAIN tx'[c]
          /\ \A t \in Spaces : SpaceKey(t) = k => t = s
          /\ \A w \in Versions : HeaderKey(w) # k
          /\ \A w \in Versions, t \in Spaces : ScopeKey(w, t) # k
      BY <1>2, <2>2, KeysExist, KeysDiffer
    <2> HIDE DEF k
    <2>7. SpacesHeld(c)'
      BY <1>1, <1>2, <1>4, <2>1, <2>2, <2>3, <2>6 DEF SpacesHeld, Holds, k
    <2>8. HeadersHeld(c)'
      BY <1>1, <1>2, <1>4, <2>2, <2>6 DEF HeadersHeld, Holds, Drafted
    <2>9. ScopesHeld(c)'
      BY <1>1, <1>2, <1>4, <2>2, <2>6 DEF ScopesHeld, Holds
    <2>10. Removing(c)'
      BY <1>1, <1>2, <1>3, <1>4, <1>5, <2>1, <2>2, <2>6 DEF Removing, Holds, Sees, k
    <2> QED
      BY <1>1, <1>3, <1>4, <2>2, <2>5, <2>6, <2>7, <2>8, <2>9, <2>10, RemovingSound
  <1>7. CASE Sees(c, k).state # "live"
    <2>1. UNCHANGED tx
      BY <1>1, <1>7
    <2>2. Sees(c, k).state = "deleted"
      BY <1>2, <1>5, <1>7 DEF SpacesHeld, Holds, Sees, SpaceRow
    <2>3. SpacesHeld(c)' /\ HeadersHeld(c)' /\ ScopesHeld(c)'
      BY <1>1, <1>2, <1>4, <2>1 DEF SpacesHeld, HeadersHeld, ScopesHeld, Holds, Drafted
    <2>4. Removing(c)'
      BY <1>1, <1>2, <1>3, <1>4, <2>1, <2>2 DEF Removing, Holds, Sees
    <2> QED
      BY <1>1, <1>2, <1>3, <1>4, <2>1, <2>3, <2>4, RemovingSound
  <1> QED
    BY <1>6, <1>7

LEMMA DropScopeKeeps ==
    ASSUME IInv, NEW c \in Clients, DropScope(c)
    PROVE  IInv' /\ Evolves
  <1> DEFINE s == req[c].space
             v == req[c].version
             k == ScopeKey(v, s)
  <1>1. /\ SentBy(c) /\ req[c].op = "deleteSpace" /\ req[c].at = "dropScope"
        /\ UNCHANGED db /\ Proceeds(c, "reorder")
        /\ \A d \in Clients : ~WaitsFor(c, d)
        /\ IF HasScope(c, v, s) THEN Writes(c, Row(k, NoScope)) ELSE UNCHANGED tx
    BY UnsentBy DEF DropScope, Runs
  <1>2. /\ SpacesHeld(c) /\ HeadersHeld(c) /\ ScopesHeld(c) /\ Removing(c)
        /\ req[c] \in Request /\ DOMAIN tx[c] \subseteq Keys
        /\ s \in Spaces /\ v \in Versions /\ v # 0
        /\ HeaderKey(v) \in DOMAIN tx[c]
        /\ Sees(c, SpaceKey(s)).state = "deleted"
        /\ DOMAIN req = Clients /\ DOMAIN tx = Clients
    BY <1>1, RemovingHolds DEF Versions
  <1>3. /\ DOMAIN req' = Clients /\ \A d \in Clients \ {c} : req'[d] = req[d]
        /\ req'[c] \in Request /\ req'[c].at = "reorder"
        /\ req'[c].version = v
        /\ req'[c].op = "deleteSpace" /\ req'[c].space = s
    BY <1>1, ProceedsTo DEF Steps
  <1> HIDE DEF v
  <1>4. CASE HasScope(c, v, s)
    <2>1. db[k] # NoScope
      BY <1>2, <1>4, SeesScopes DEF HasScope
    <2>2. /\ DOMAIN tx' = Clients /\ \A d \in Clients \ {c} : tx'[d] = tx[d]
          /\ DOMAIN tx'[c] = DOMAIN tx[c] \cup {k}
          /\ \A x \in DOMAIN tx'[c] : tx'[c][x] = IF x = k THEN NoScope ELSE tx[c][x]
      BY <1>1, <1>4, RowWritten
    <2>3. Wants(c) = {k}
      BY <1>1 DEF Wants, v
    <2>4. \A d \in Clients \ {c} : k \notin DOMAIN tx[d]
      BY <1>1, <2>3, Locked
    <2>5. /\ DOMAIN tx'[c] \subseteq Keys /\ k \in DOMAIN tx'[c]
          /\ \A t \in Spaces : SpaceKey(t) # k
          /\ \A w \in Versions : HeaderKey(w) # k
          /\ \A w \in Versions, t \in Spaces : ScopeKey(w, t) = k => w = v /\ t = s
      BY <1>2, <2>2, KeysExist, KeysDiffer
    <2> HIDE DEF k
    <2>6. SpacesHeld(c)'
      BY <1>1, <1>2, <1>3, <2>2, <2>5 DEF SpacesHeld, Holds
    <2>7. HeadersHeld(c)'
      BY <1>1, <1>2, <1>3, <2>2, <2>5 DEF HeadersHeld, Holds, Drafted, v
    <2>8. ScopesHeld(c)'
      BY <1>1, <1>2, <1>3, <2>1, <2>2, <2>5 DEF ScopesHeld, Holds, k, v
    <2>9. Removing(c)'
      BY <1>1, <1>2, <1>3, <2>2, <2>5 DEF Removing, Holds, Sees
    <2> QED
      BY <1>1, <1>3, <2>2, <2>4, <2>5, <2>6, <2>7, <2>8, <2>9, RemovingSound
  <1>5. CASE ~HasScope(c, v, s)
    <2>1. UNCHANGED tx
      BY <1>1, <1>5
    <2>2. SpacesHeld(c)' /\ HeadersHeld(c)' /\ ScopesHeld(c)'
      BY <1>1, <1>2, <1>3, <2>1
      DEF SpacesHeld, HeadersHeld, ScopesHeld, Holds, Drafted, v
    <2>3. Removing(c)'
      BY <1>1, <1>2, <1>3, <2>1 DEF Removing, Holds, Sees
    <2> QED
      BY <1>1, <1>2, <1>3, <2>1, <2>2, <2>3, RemovingSound
  <1> QED
    BY <1>4, <1>5

LEMMA ReorderScopesKeeps ==
    ASSUME IInv, NEW c \in Clients, ReorderScopes(c)
    PROVE  IInv' /\ Evolves
  <1> DEFINE s == req[c].space
             v == req[c].version
             keys == {ScopeKey(v, t) : t \in ScopesOf(c, v)}
             rows == [k \in keys |-> Sees(c, k)]
  <1>1. /\ SentBy(c) /\ req[c].op = "deleteSpace" /\ req[c].at = "reorder"
        /\ UNCHANGED db /\ Proceeds(c, "resum") /\ Writes(c, rows)
        /\ \A d \in Clients : ~WaitsFor(c, d)
    BY UnsentBy DEF ReorderScopes, Runs
  <1>2. /\ SpacesHeld(c) /\ HeadersHeld(c) /\ ScopesHeld(c) /\ Removing(c)
        /\ req[c] \in Request /\ DOMAIN tx[c] \subseteq Keys
        /\ s \in Spaces /\ v \in Versions /\ v # 0
        /\ HeaderKey(v) \in DOMAIN tx[c]
        /\ Sees(c, SpaceKey(s)).state = "deleted"
        /\ DOMAIN req = Clients /\ DOMAIN tx = Clients
    BY <1>1, RemovingHolds DEF Versions
  <1>3. /\ DOMAIN req' = Clients /\ \A d \in Clients \ {c} : req'[d] = req[d]
        /\ req'[c] \in Request /\ req'[c].at = "resum"
        /\ req'[c].version = v
        /\ req'[c].op = "deleteSpace" /\ req'[c].space = s
    BY <1>1, ProceedsTo DEF Steps
  <1>4. Wants(c) = keys
    BY <1>1 DEF Wants
  <1>5. \A k \in keys : \A d \in Clients \ {c} : k \notin DOMAIN tx[d]
    BY <1>1, <1>4, Locked
  <1>6. /\ \A t \in Spaces : SpaceKey(t) \notin keys
        /\ \A w \in Versions : HeaderKey(w) \notin keys
        /\ \A w \in Versions, t \in Spaces :
              ScopeKey(w, t) \in keys =>
                 /\ w = v /\ Sees(c, ScopeKey(w, t)) # NoScope
                 /\ Sees(c, ScopeKey(w, t)) \in ScopeRow
                 /\ db[ScopeKey(w, t)] # NoScope
        /\ keys \subseteq Keys
    <2>1. \A t \in ScopesOf(c, v) : t \in Spaces /\ Sees(c, ScopeKey(v, t)) # NoScope
      BY DEF ScopesOf, HasScope
    <2>2. \A t \in ScopesOf(c, v) :
             Sees(c, ScopeKey(v, t)) \in ScopeRow /\ db[ScopeKey(v, t)] # NoScope
      BY <1>2, <2>1, SeesTyped, SeesScopes
    <2> HIDE DEF v
    <2>3. /\ \A t \in Spaces : SpaceKey(t) \notin keys
          /\ \A w \in Versions : HeaderKey(w) \notin keys
          /\ keys \subseteq Keys
      BY <1>2, <2>1, KeysDiffer, KeysExist
    <2>4. \A w \in Versions, t \in Spaces :
             ScopeKey(w, t) \in keys => w = v /\ t \in ScopesOf(c, v)
      BY <1>2, <2>1, KeysDiffer
    <2> QED
      BY <2>1, <2>2, <2>3, <2>4
  <1> HIDE DEF keys, v
  <1>7. /\ DOMAIN tx' = Clients /\ \A d \in Clients \ {c} : tx'[d] = tx[d]
        /\ DOMAIN tx'[c] = DOMAIN tx[c] \cup keys
        /\ \A x \in DOMAIN tx'[c] :
              tx'[c][x] = IF x \in keys THEN Sees(c, x) ELSE tx[c][x]
    <2>1. DOMAIN rows = keys /\ \A x \in keys : rows[x] = Sees(c, x)
      OBVIOUS
    <2> HIDE DEF rows
    <2> QED
      BY <1>1, <2>1, RowsWritten
  <1>8. SpacesHeld(c)'
    BY <1>1, <1>2, <1>3, <1>6, <1>7 DEF SpacesHeld, Holds
  <1>9. HeadersHeld(c)'
    BY <1>1, <1>2, <1>3, <1>6, <1>7 DEF HeadersHeld, Holds, Drafted, v
  <1>10. ScopesHeld(c)'
    BY <1>1, <1>2, <1>3, <1>6, <1>7 DEF ScopesHeld, Holds, v
  <1>11. Removing(c)'
    BY <1>1, <1>2, <1>3, <1>6, <1>7 DEF Removing, Holds, Sees
  <1> QED
    BY <1>1, <1>2, <1>3, <1>5, <1>6, <1>7, <1>8, <1>9, <1>10, <1>11, RemovingSound

LEMMA ResumTotalsKeeps ==
    ASSUME IInv, NEW c \in Clients, ResumTotals(c)
    PROVE  IInv' /\ Evolves
  <1> DEFINE s == req[c].space
             v == req[c].version
             k == HeaderKey(v)
             row == Totalled(Sees(c, k), Sums(c, v))
  <1>1. /\ SentBy(c) /\ req[c].op = "deleteSpace" /\ req[c].at = "resum"
        /\ UNCHANGED db /\ Proceeds(c, "shift")
        /\ IF IsDraft(c, v) THEN Writes(c, Row(k, row)) ELSE UNCHANGED tx
    BY UnsentBy DEF ResumTotals, Runs
  <1>2. /\ SpacesHeld(c) /\ HeadersHeld(c) /\ ScopesHeld(c) /\ Removing(c)
        /\ req[c] \in Request /\ DOMAIN tx[c] \subseteq Keys
        /\ s \in Spaces /\ v \in Versions /\ v # 0
        /\ k \in DOMAIN tx[c] /\ Drafted(v)
        /\ Sees(c, SpaceKey(s)).state = "deleted"
        /\ DOMAIN req = Clients /\ DOMAIN tx = Clients
    BY <1>1, RemovingHolds DEF Versions
  <1>3. /\ DOMAIN req' = Clients /\ \A d \in Clients \ {c} : req'[d] = req[d]
        /\ req'[c] \in Request /\ req'[c].at = "shift"
        /\ req'[c].version = v
        /\ req'[c].op = "deleteSpace" /\ req'[c].space = s
    BY <1>1, ProceedsTo DEF Steps
  <1>4. Writes(c, Row(k, row))
    BY <1>1, <1>2, SeesDraft
  <1>5. /\ Sees(c, k) = tx[c][k] /\ Sees(c, k) \in HeaderRow /\ IsDraftIn(tx[c][k])
        /\ tx[c][k].revision >= db[k].revision
        /\ db[k].revision \in Nat
    <2>1. Sees(c, k) = tx[c][k] /\ Sees(c, k) \in HeaderRow
      BY <1>2, SeesTyped DEF Sees
    <2>2. IsDraftIn(tx[c][k]) /\ tx[c][k].revision >= db[k].revision
      BY <1>2 DEF HeadersHeld, Holds
    <2>3. db[k].revision \in Nat
      BY <1>2 DEF IInv, RowsTyped, HeaderRow
    <2> QED
      BY <2>1, <2>2, <2>3
  <1>6. /\ row \in HeaderRow /\ row.status = tx[c][k].status
        /\ row.isCurrent = tx[c][k].isCurrent
        /\ row.revision = tx[c][k].revision + 1 /\ tx[c][k].revision \in Nat
    BY <1>2, <1>5, ScopesSummed, TotalledRow
  <1>7. IsDraftIn(row) /\ row.revision > db[k].revision
    BY <1>5, <1>6 DEF IsDraftIn
  <1> HIDE DEF row, v
  <1>8. /\ DOMAIN tx' = Clients /\ \A d \in Clients \ {c} : tx'[d] = tx[d]
        /\ DOMAIN tx'[c] = DOMAIN tx[c]
        /\ \A x \in DOMAIN tx'[c] : tx'[c][x] = IF x = k THEN row ELSE tx[c][x]
    BY <1>2, <1>4, RowWritten
  <1>9. /\ \A t \in Spaces : SpaceKey(t) # k
        /\ \A w \in Versions : HeaderKey(w) = k => w = v
        /\ \A w \in Versions, t \in Spaces : ScopeKey(w, t) # k
    BY <1>2, KeysDiffer
  <1>10. SpacesHeld(c)'
    BY <1>1, <1>2, <1>3, <1>8, <1>9 DEF SpacesHeld, Holds
  <1>11. HeadersHeld(c)'
    <2> SUFFICES ASSUME NEW w \in Versions, HeaderKey(w) \in DOMAIN tx'[c]
                 PROVE  /\ tx'[c][HeaderKey(w)] \in HeaderRow
                        /\ w = req'[c].version
                        /\ IsDraftIn(db'[HeaderKey(w)])
                        /\ IsDraftIn(tx'[c][HeaderKey(w)])
                        /\ tx'[c][HeaderKey(w)].revision >= db'[HeaderKey(w)].revision
                        /\ req'[c].op \in {"deleteSpace", "updateLine"}
      BY DEF HeadersHeld, Holds, Drafted
    <2>1. w = v
      BY <1>2, <1>8 DEF HeadersHeld, Holds, v
    <2>2. tx'[c][HeaderKey(w)] = row
      BY <1>8, <2>1
    <2>3. row.revision >= db[k].revision
      BY <1>5, <1>6
    <2> QED
      BY <1>1, <1>2, <1>3, <1>6, <1>7, <2>1, <2>2, <2>3 DEF Drafted
  <1>12. ScopesHeld(c)'
    BY <1>1, <1>2, <1>3, <1>8, <1>9 DEF ScopesHeld, Holds, v
  <1>13. Removing(c)'
    BY <1>1, <1>2, <1>3, <1>7, <1>8, <1>9 DEF Removing, Holds, Sees, v
  <1> QED
    BY <1>1, <1>2, <1>3, <1>8, <1>10, <1>11, <1>12, <1>13, RemovingSound

LEMMA ShiftOrdersKeeps ==
    ASSUME IInv, NEW c \in Clients, ShiftOrders(c)
    PROVE  IInv' /\ Evolves
  <1> DEFINE s == req[c].space
             v == req[c].version
             keys == {SpaceKey(t) : t \in LiveSpaces(c)}
             rows == [k \in keys |-> [Sees(c, k) EXCEPT !.order = @ + Shift]]
  <1>1. /\ SentBy(c) /\ req[c].op = "deleteSpace" /\ req[c].at = "shift"
        /\ UNCHANGED db /\ Proceeds(c, "renumber") /\ Writes(c, rows)
        /\ \A d \in Clients : ~WaitsFor(c, d)
    BY UnsentBy DEF ShiftOrders, Runs
  <1>2. /\ SpacesHeld(c) /\ HeadersHeld(c) /\ ScopesHeld(c) /\ Removing(c)
        /\ req[c] \in Request /\ DOMAIN tx[c] \subseteq Keys
        /\ s \in Spaces /\ v \in Versions \cup {0}
        /\ v # 0 => HeaderKey(v) \in DOMAIN tx[c] /\ v \in Versions
        /\ Sees(c, SpaceKey(s)).state = "deleted"
        /\ DOMAIN req = Clients /\ DOMAIN tx = Clients
    BY <1>1, RemovingHolds
  <1>3. /\ DOMAIN req' = Clients /\ \A d \in Clients \ {c} : req'[d] = req[d]
        /\ req'[c] \in Request /\ req'[c].at = "renumber"
        /\ req'[c].version = v
        /\ req'[c].op = "deleteSpace" /\ req'[c].space = s
    BY <1>1, ProceedsTo DEF Steps
  <1>4. Wants(c) = keys
    BY <1>1 DEF Wants
  <1>5. \A k \in keys : \A d \in Clients \ {c} : k \notin DOMAIN tx[d]
    BY <1>1, <1>4, Locked
  <1>6. /\ DOMAIN rows = keys
        /\ \A t \in LiveSpaces(c) :
              /\ rows[SpaceKey(t)] \in SpaceRow
              /\ rows[SpaceKey(t)].state = "live"
              /\ db[SpaceKey(t)].state = "live"
    <2> SUFFICES ASSUME NEW t \in LiveSpaces(c)
                 PROVE  /\ rows[SpaceKey(t)] \in SpaceRow
                        /\ rows[SpaceKey(t)].state = "live"
                        /\ db[SpaceKey(t)].state = "live"
      OBVIOUS
    <2>1. /\ t \in Spaces /\ Sees(c, SpaceKey(t)) \in SpaceRow
          /\ Sees(c, SpaceKey(t)).state = "live"
      BY SeesTyped DEF LiveSpaces
    <2>2. rows[SpaceKey(t)] =
             [Sees(c, SpaceKey(t)) EXCEPT !.order = Sees(c, SpaceKey(t)).order + Shift]
      OBVIOUS
    <2>3. /\ rows[SpaceKey(t)] \in SpaceRow
          /\ rows[SpaceKey(t)].state = "live"
      <3> HIDE DEF rows
      <3> QED
        BY <2>1, <2>2 DEF SpaceRow, Shift
    <2>4. db[SpaceKey(t)].state = "live"
      BY <1>2, <2>1 DEF SpacesHeld, Holds, Sees
    <2> QED
      BY <2>3, <2>4
  <1>7. /\ \A t \in Spaces : SpaceKey(t) \in keys <=> t \in LiveSpaces(c)
        /\ \A w \in Versions : HeaderKey(w) \notin keys
        /\ \A w \in Versions, t \in Spaces : ScopeKey(w, t) \notin keys
        /\ keys \subseteq Keys
        /\ SpaceKey(s) \notin keys
    BY <1>2, KeysDiffer, KeysExist DEF LiveSpaces
  <1> HIDE DEF keys, rows
  <1>8. /\ DOMAIN tx' = Clients /\ \A d \in Clients \ {c} : tx'[d] = tx[d]
        /\ DOMAIN tx'[c] = DOMAIN tx[c] \cup keys
        /\ \A x \in DOMAIN tx'[c] :
              tx'[c][x] = IF x \in keys THEN rows[x] ELSE tx[c][x]
    BY <1>1, <1>6, RowsWritten
  <1>9. SpacesHeld(c)'
    BY <1>1, <1>2, <1>3, <1>6, <1>7, <1>8 DEF SpacesHeld, Holds
  <1>10. HeadersHeld(c)'
    BY <1>1, <1>2, <1>3, <1>7, <1>8 DEF HeadersHeld, Holds, Drafted
  <1>11. ScopesHeld(c)'
    BY <1>1, <1>2, <1>3, <1>7, <1>8 DEF ScopesHeld, Holds
  <1>12. Removing(c)'
    BY <1>1, <1>2, <1>3, <1>7, <1>8 DEF Removing, Holds, Sees
  <1> QED
    BY <1>1, <1>2, <1>3, <1>5, <1>7, <1>8, <1>9, <1>10, <1>11, <1>12, RemovingSound

-----------------------------------------------------------------------------
(* The requests on the quotation.                                          *)

LEMMA OpenDraftKeeps ==
    ASSUME IInv, NEW c \in Clients, OpenDraft(c)
    PROVE  IInv' /\ Evolves
  <1> DEFINE v == Draft(c)
             rev == Sees(c, HeaderKey(v)).revision
             known == [s \in Spaces |-> IF s \in ScopesOf(c, v)
                          THEN Sees(c, ScopeKey(v, s)).area ELSE req[c].known[s]]
  <1>1. /\ SentBy(c) /\ req[c].op = "getOrCreateDraft" /\ req[c].at = "openDraft"
        /\ req[c] \in Request /\ DOMAIN tx[c] = {}
        /\ DOMAIN req = Clients /\ DOMAIN tx = Clients
    BY UnsentBy, NothingHeld DEF OpenDraft, Runs, IInv, Sound, Domains, BeforeWriting
  <1>2. ASSUME DOMAIN req' = Clients, \A d \in Clients \ {c} : req'[d] = req[d],
               req'[c] \in Request, req'[c].op = "getOrCreateDraft",
               req'[c].at \in {"createDraft", "addScopes"},
               req'[c].at = "addScopes" => req'[c].version # 0,
               UNCHANGED <<db, tx>>
        PROVE  IInv' /\ Evolves
    <2>1. SpacesHeld(c)' /\ HeadersHeld(c)' /\ ScopesHeld(c)'
      BY <1>1, <1>2 DEF SpacesHeld, HeadersHeld, ScopesHeld, Holds
    <2>2. Stands(c)' /\ Adding(c)' /\ Updating(c)' /\ Removing(c)' /\ Saving(c)'
      BY <1>1, <1>2 DEF Stands, Adding, Updating, Removing, Saving
    <2>3. Sound(c)'
      BY <1>1, <1>2, <2>1, <2>2 DEF Sound, SentBy
    <2> QED
      BY <1>1, <1>2, <2>3, StatementKeepsInvariant
  <1>3. CASE RolledBack(c)
    BY <1>1, <1>3, RollbackKeepsInvariant
  <1>4. CASE Proceeds(c, "createDraft") /\ UNCHANGED <<db, tx>>
    <2>1. /\ DOMAIN req' = Clients /\ \A d \in Clients \ {c} : req'[d] = req[d]
          /\ req'[c] \in Request /\ req'[c].at = "createDraft"
          /\ req'[c].op = "getOrCreateDraft"
      BY <1>1, <1>4, ProceedsTo DEF Steps
    <2> QED
      BY <1>2, <1>4, <2>1
  <1>5. CASE /\ v # 0 /\ UNCHANGED <<db, tx>>
             /\ req' = [req EXCEPT ![c].at = "addScopes", ![c].version = v,
                           ![c].revision = rev, ![c].known = known]
    <2>1. v \in Versions
      BY <1>5, DraftFound
    <2>2. rev \in Nat
      BY <2>1, SeesTyped DEF HeaderRow
    <2>3. known \in Measured
      <3>1. \A s \in ScopesOf(c, v) : Sees(c, ScopeKey(v, s)).area \in Measures
        BY <2>1, SeesTyped DEF ScopesOf, HasScope, ScopeRow
      <3>2. \A s \in Spaces : req[c].known[s] \in Measures \cup {None}
        BY <1>1 DEF Request, Measured
      <3> QED
        BY <3>1, <3>2 DEF Measured
    <2> HIDE DEF v, rev, known
    <2>4. /\ DOMAIN req' = Clients /\ \A d \in Clients \ {c} : req'[d] = req[d]
          /\ req'[c] = [req[c] EXCEPT !.at = "addScopes", !.version = v,
                                      !.revision = rev, !.known = known]
      BY <1>1, <1>5
    <2>5. /\ req'[c] \in Request /\ req'[c].at = "addScopes" /\ req'[c].version = v
          /\ req'[c].op = "getOrCreateDraft"
      BY <1>1, <2>1, <2>2, <2>3, <2>4 DEF Request, Steps
    <2> QED
      BY <1>2, <1>5, <2>4, <2>5
  <1> QED
    BY <1>3, <1>4, <1>5 DEF OpenDraft

LEMMA SaveHeaderKeeps ==
    ASSUME IInv, NEW c \in Clients, SaveHeader(c)
    PROVE  IInv' /\ Evolves
  <1> DEFINE v == req[c].version
             k == HeaderKey(v)
             row == Totalled(Sees(c, k), req[c].known)
  <1>1. /\ SentBy(c) /\ req[c].op = "updateLine" /\ req[c].at = "saveHeader"
        /\ req[c] \in Request /\ Saving(c) /\ RowsTyped
        /\ DOMAIN req = Clients /\ DOMAIN tx = Clients
        /\ DOMAIN tx[c] = {} /\ \A x : Sees(c, x) = db[x]
        /\ \A d \in Clients : ~WaitsFor(c, d)
    BY UnsentBy, NothingHeld DEF SaveHeader, Runs, IInv, Sound, Domains, BeforeWriting
  <1>2. v \in Versions /\ v # 0 /\ req[c].known \in Measured
    BY <1>1 DEF Saving, Request
  <1>3. CASE RolledBack(c)
    BY <1>1, <1>3, RollbackKeepsInvariant
  <1>4. CASE /\ IsDraftAt(c, v, req[c].revision) /\ Writes(c, Row(k, row))
             /\ Proceeds(c, "saveScopes") /\ UNCHANGED db
    <2>1. Drafted(v) /\ db[k].revision = req[c].revision
      BY <1>1, <1>2, <1>4, SeesDraft DEF IsDraftAt
    <2>2. db[k] \in HeaderRow
      BY <1>1, <1>2 DEF RowsTyped
    <2>3. /\ row \in HeaderRow /\ row.status = db[k].status
          /\ row.isCurrent = db[k].isCurrent
          /\ row.revision = db[k].revision + 1 /\ db[k].revision \in Nat
      BY <1>1, <1>2, <2>2, TotalledRow
    <2>4. IsDraftIn(row) /\ row.revision > db[k].revision /\ row.revision >= db[k].revision
      BY <2>1, <2>3 DEF IsDraftIn, Drafted
    <2> HIDE DEF row
    <2>5. /\ DOMAIN req' = Clients /\ \A d \in Clients \ {c} : req'[d] = req[d]
          /\ req'[c] \in Request /\ req'[c].at = "saveScopes" /\ req'[c].version = v
          /\ req'[c].op = "updateLine" /\ req'[c].revision = req[c].revision
          /\ req'[c].known = req[c].known
      BY <1>1, <1>4, ProceedsTo DEF Steps
    <2>6. /\ DOMAIN tx' = Clients /\ \A d \in Clients \ {c} : tx'[d] = tx[d]
          /\ DOMAIN tx'[c] = {k} /\ tx'[c][k] = row
      BY <1>1, <1>4, RowWritten
    <2>7. Wants(c) = {k}
      BY <1>1, <1>2 DEF Wants
    <2>8. \A d \in Clients \ {c} : k \notin DOMAIN tx[d]
      BY <1>1, <2>7, Locked
    <2>9. /\ DOMAIN tx'[c] \subseteq Keys
          /\ \A t \in Spaces : SpaceKey(t) \notin DOMAIN tx'[c]
          /\ \A w \in Versions : HeaderKey(w) \in DOMAIN tx'[c] => w = v
          /\ \A w \in Versions, t \in Spaces : ScopeKey(w, t) \notin DOMAIN tx'[c]
      BY <1>2, <2>6, KeysExist, KeysDiffer
    <2>10. SpacesHeld(c)' /\ ScopesHeld(c)'
      BY <2>9 DEF SpacesHeld, ScopesHeld, Holds
    <2>11. HeadersHeld(c)'
      BY <1>4, <2>1, <2>3, <2>4, <2>5, <2>6, <2>9 DEF HeadersHeld, Holds, Drafted
    <2>12. Saving(c)'
      BY <1>1, <1>4, <2>1, <2>4, <2>5, <2>6 DEF Saving, Holds, Exists, Drafted
    <2>13. Stands(c)' /\ Adding(c)' /\ Updating(c)' /\ Removing(c)'
      BY <2>5 DEF Stands, BeforeWriting, Adding, Updating, Removing
    <2>14. Sound(c)'
      BY <1>1, <2>5, <2>9, <2>10, <2>11, <2>12, <2>13 DEF Sound, SentBy
    <2> QED
      BY <1>1, <1>4, <2>5, <2>6, <2>8, <2>14, StatementKeepsInvariant
  <1> QED
    BY <1>3, <1>4 DEF SaveHeader

-----------------------------------------------------------------------------
(* The initial state and all steps.                                        *)

LEMMA AbortKeeps ==
    ASSUME IInv, NEW c \in Clients, Abort(c)
    PROVE  IInv' /\ Evolves
  <1>1. RolledBack(c) /\ UNCHANGED sent
    BY DEF Abort
  <1> QED
    BY <1>1, UnsentBy, RollbackKeepsInvariant

LEMMA InitInvariant == Init => IInv
  <1> SUFFICES ASSUME Init
               PROVE  IInv
    OBVIOUS
  <1>1. PICK order \in [InitialSpaces -> 0..(Cardinality(InitialSpaces) - 1)] :
           db = [k \in Keys |->
                CASE k[1] = "space" ->
                       IF k[2] \in InitialSpaces
                       THEN [state |-> "live", measure |-> InitialMeasure,
                             order |-> order[k[2]]]
                       ELSE NoSpace
                  [] k[1] = "header" -> NoHeader
                  [] k[1] = "scope" -> NoScope]
    BY DEF Init
  <1>2. /\ tx = [c \in Clients |-> <<>>] /\ req = [c \in Clients |-> NoRequest]
        /\ sent = [c \in Clients |-> 0]
    BY DEF Init
  <1>3. \A s \in Spaces :
           db[SpaceKey(s)] = IF s \in InitialSpaces
                             THEN [state |-> "live", measure |-> InitialMeasure,
                                   order |-> order[s]]
                             ELSE NoSpace
    BY <1>1, KeysExist DEF SpaceKey
  <1>4. \A v \in Versions : db[HeaderKey(v)] = NoHeader
    BY <1>1, KeysExist DEF HeaderKey
  <1>5. \A v \in Versions, s \in Spaces : db[ScopeKey(v, s)] = NoScope
    BY <1>1, KeysExist DEF ScopeKey
  <1>6. RowsTyped
    <2>1. \A s \in InitialSpaces : order[s] \in Nat
      BY SpacesCounted, ConstantsAssumption
    <2>2. ASSUME NEW s \in Spaces
          PROVE  db[SpaceKey(s)] \in SpaceRow
      <3>1. CASE s \in InitialSpaces
        <4>1. db[SpaceKey(s)] = [state |-> "live", measure |-> InitialMeasure,
                                 order |-> order[s]]
          BY <1>3, <3>1
        <4>2. order[s] \in Nat /\ InitialMeasure \in Measures
          BY <2>1, <3>1, ConstantsAssumption
        <4> QED
          BY <4>1, <4>2 DEF SpaceRow
      <3>2. CASE s \notin InitialSpaces
        <4>1. db[SpaceKey(s)] = NoSpace
          BY <1>3, <3>2
        <4>2. NoSpace \in SpaceRow
          BY DEF SpaceRow, NoSpace
        <4> QED
          BY <4>1, <4>2
      <3> QED
        BY <3>1, <3>2
    <2>3. NoHeader \in HeaderRow
      BY DEF NoHeader, HeaderRow, Measured, Nothing
    <2> QED
      BY <1>1, <1>4, <1>5, <2>2, <2>3 DEF RowsTyped
  <1>7. Chain
    BY <1>4, <1>5 DEF Chain, Exists, NoHeader
  <1>8. \A c \in Clients : DOMAIN tx[c] = {}
    BY <1>2
  <1>9. \A c \in Clients : req[c].op = "none" /\ req[c].at = "idle"
    BY <1>2 DEF NoRequest
  <1>10. Domains /\ LocksDisjoint /\ AddersApart
    BY <1>2, <1>8, <1>9 DEF Domains, LocksDisjoint, AddersApart
  <1>11. ASSUME NEW c \in Clients
         PROVE  Sound(c)
    <2>1. req[c] \in Request
      BY <1>2 DEF NoRequest, Request, Measured, Nothing, Steps
    <2>2. sent[c] \in 0..MaxRequests[c]
      BY <1>2, ConstantsAssumption
    <2>3. SpacesHeld(c) /\ HeadersHeld(c) /\ ScopesHeld(c)
      BY <1>8 DEF SpacesHeld, HeadersHeld, ScopesHeld, Holds
    <2>4. Stands(c) /\ Adding(c) /\ Updating(c) /\ Removing(c) /\ Saving(c)
      BY <1>8, <1>9 DEF Stands, Adding, Updating, Removing, Saving
    <2> QED
      BY <1>8, <2>1, <2>2, <2>3, <2>4 DEF Sound
  <1> QED
    BY <1>6, <1>7, <1>10, <1>11 DEF IInv

LEMMA StepKeeps == IInv /\ [Next]_vars => IInv' /\ Evolves
  <1> SUFFICES ASSUME IInv, [Next]_vars
               PROVE  IInv' /\ Evolves
    OBVIOUS
  <1>1. ASSUME NEW c \in Clients, Browse(c)
        PROVE  IInv' /\ Evolves
    BY <1>1, ReadForAddSpaceKeeps, ReadForUpdateSpaceKeeps,
       ReadForDeleteSpaceKeeps, OpenQuotationKeeps, ReadLineKeeps, SubmitKeeps,
       ContinueEditingKeeps
    DEF Browse
  <1>2. ASSUME NEW c \in Clients, Serve(c)
        PROVE  IInv' /\ Evolves
    BY <1>2, AssertSpaceAdjustableKeeps, AddSpaceKeeps, UpdateSpaceRowKeeps,
       FindDraftOfScopeKeeps, UpdateScopeAreaKeeps, UpdateQuantitiesKeeps,
       UpdateAmountsKeeps, UpdateSubtotalKeeps, SumScopesKeeps,
       UpdateTotalsKeeps, FindHeaderKeeps, LockHeaderKeeps, SoftDeleteKeeps,
       DropScopeKeeps, ReorderScopesKeeps, ResumTotalsKeeps, ShiftOrdersKeeps,
       RenumberSpacesKeeps, OpenDraftKeeps, CreateDraftKeeps,
       AddDraftScopesKeeps, SaveHeaderKeeps, SaveScopesKeeps, AbortKeeps
    DEF Serve
  <1>3. CASE UNCHANGED vars
    <2>1. db' = db /\ tx' = tx /\ req' = req /\ sent' = sent
      BY <1>3 DEF vars
    <2>2. RowsTyped' /\ Chain' /\ Domains' /\ LocksDisjoint' /\ AddersApart'
      BY <2>1 DEF IInv, RowsTyped, Chain, Exists, Domains, LocksDisjoint,
         AddersApart
    <2>3. Evolves
      BY <2>1, EvolvesInStage DEF IInv
    <2>4. ASSUME NEW c \in Clients
          PROVE  Sound(c)'
      <3>1. Undisturbed(c)
        BY <2>1 DEF Undisturbed
      <3> QED
        BY <2>2, <2>3, <3>1, OthersStaySound
    <2> QED
      BY <2>2, <2>3, <2>4 DEF IInv
  <1> QED
    BY <1>1, <1>2, <1>3 DEF Next

LEMMA Invariance == Spec => []IInv
  <1>1. IInv /\ [Next]_vars => IInv'
    BY StepKeeps
  <1> QED
    BY <1>1, InitInvariant, PTL DEF Spec

-----------------------------------------------------------------------------
(* The theorems.                                                           *)

\* The rows, the requests and what the transactions have written have their
\* types, and no transaction is open without a request.
THEOREM TypeCorrect == Spec => []TypeOK
  <1>1. IInv => TypeOK
    BY DEF IInv, RowsTyped, Sound, Stands, BeforeWriting, TypeOK
  <1> QED
    BY <1>1, Invariance, PTL

\* What commits to the scopes of a draft gives its header a new revision, in
\* updateSpace as in deleteSpace and in the requests on the quotation: what
\* saveDraft, addDraftScopes and submitDraft compare tells all changes.
THEOREM ChangesTold == Spec => RevisionTellsChange
  <1>1. IInv /\ [Next]_vars =>
           [\A v \in Versions :
              (/\ \E s \in Spaces : db'[ScopeKey(v, s)] # db[ScopeKey(v, s)]
               /\ IsDraftIn(db[HeaderKey(v)])
               /\ IsDraftIn(db'[HeaderKey(v)]))
              => db'[HeaderKey(v)].revision > db[HeaderKey(v)].revision]_vars
    BY StepKeeps DEF Evolves, Drafted
  <1> QED
    BY <1>1, Invariance, PTL DEF Spec, RevisionTellsChange

\* No commit changes the totals of a generated version or adds a scope to it
\* or drops one, whatever the transaction had read before the generation: an
\* updateSpace that summed up the draft may still write the header when it has
\* been generated meanwhile, but with these totals only.
THEOREM GeneratedKept == Spec => GeneratedTotalsFrozen
  <1>1. IInv /\ [Next]_vars =>
           [\A v \in Versions :
              db[HeaderKey(v)].status = "QUOTED" =>
                  /\ db'[HeaderKey(v)].totals = db[HeaderKey(v)].totals
                  /\ db'[HeaderKey(v)].status = "QUOTED"
                  /\ \A s \in Spaces : db'[ScopeKey(v, s)] = NoScope <=>
                                          db[ScopeKey(v, s)] = NoScope]_vars
    BY StepKeeps DEF Evolves
  <1> QED
    BY <1>1, Invariance, PTL DEF Spec, GeneratedTotalsFrozen

LEMMA ReachesDraft ==
    ASSUME IInv, NEW c \in Clients, UpdateTotals(c),
           req[c].version # 0, req[c].scopeOf = req[c].version,
           ScopeKey(req[c].version, req[c].space) \in DOMAIN tx[c],
           IsDraftIn(db'[HeaderKey(req[c].version)])
    PROVE  /\ db'[ScopeKey(req[c].version, req[c].space)] = Priced(req[c].measure)
           /\ db'[HeaderKey(req[c].version)].totals[req[c].space] = req[c].measure
  <1> DEFINE v == req[c].version
             s == req[c].space
             m == req[c].measure
             row == Totalled(Sees(c, HeaderKey(v)), req[c].known)
  <1>1. /\ req[c].op = "updateSpace" /\ req[c].at = "totals"
        /\ req[c] \in Request /\ HeadersHeld(c) /\ ScopesHeld(c)
        /\ Updating(c) /\ RowsTyped
    BY DEF UpdateTotals, Runs, IInv, Sound
  <1>2. /\ v \in Versions /\ req[c].known \in Measured
        /\ s \in Spaces /\ m \in Measures
    BY <1>1 DEF Request, Updating
  <1>3. Sees(c, HeaderKey(v)) = db[HeaderKey(v)]
    BY <1>1, <1>2 DEF HeadersHeld, Holds, Sees
  <1>4. /\ row.status = db[HeaderKey(v)].status
        /\ row.isCurrent = db[HeaderKey(v)].isCurrent
        /\ row.totals = req[c].known
    BY <1>1, <1>2, <1>3, TotalledRow DEF RowsTyped
  <1>5. Drafted(v) /\ Commits(c, Row(HeaderKey(v), row))
    <2>1. CASE RolledBack(c)
      <3>1. SentBy(c)
        BY UnsentBy DEF UpdateTotals, Runs
      <3>2. db'[HeaderKey(v)] = db[HeaderKey(v)]
        BY <1>2, <2>1, <3>1, RollbackKeepsInvariant, KeysExist
      <3>3. Drafted(v)
        BY <3>2 DEF Drafted
      <3>4. SnapshotGuard(Sees(c, HeaderKey(v)), row)
        BY <1>3, <3>3 DEF SnapshotGuard, Drafted, IsDraftIn
      <3> QED
        BY <3>3, <3>4 DEF UpdateTotals
    <2>2. CASE Commits(c, Row(HeaderKey(v), row))
      <3>1. DOMAIN Row(HeaderKey(v), row) = {HeaderKey(v)}
            /\ Row(HeaderKey(v), row)[HeaderKey(v)] = row
        BY DEF Row
      <3> HIDE DEF row, v
      <3>2. db'[HeaderKey(v)] = row
        BY <1>2, <2>2, <3>1, CommittedRows, KeysExist
      <3>3. IsDraftIn(db'[HeaderKey(v)])
        BY DEF v
      <3> QED
        BY <1>4, <2>2, <3>2, <3>3 DEF Drafted, IsDraftIn
    <2> QED
      BY <2>1, <2>2 DEF UpdateTotals
  <1>6. tx[c][ScopeKey(v, s)] = Priced(m)
    <2>1. tx[c][ScopeKey(v, s)] \in ScopeRow
      BY <1>1, <1>2 DEF ScopesHeld, Holds
    <2>2. Written(req[c], tx[c][ScopeKey(v, s)])
      BY <1>1, <1>5 DEF Updating
    <2>3. /\ tx[c][ScopeKey(v, s)].area = m /\ tx[c][ScopeKey(v, s)].quantity = m
          /\ tx[c][ScopeKey(v, s)].amount = m
          /\ tx[c][ScopeKey(v, s)].subtotal = m
      BY <1>1, <2>2 DEF Written
    <2> HIDE DEF v, s, m
    <2> QED
      BY <2>1, <2>3 DEF ScopeRow, Priced
  <1>7. req[c].known[s] = m
    <2>1. req[c].known[s] = tx[c][ScopeKey(v, s)].subtotal
      BY <1>1, <1>2, <1>5 DEF Updating, Holds
    <2> QED
      BY <1>6, <2>1 DEF Priced
  <1>8. DOMAIN Row(HeaderKey(v), row) = {HeaderKey(v)}
        /\ Row(HeaderKey(v), row)[HeaderKey(v)] = row
    BY DEF Row
  <1> HIDE DEF row, m, s, v
  <1>9. /\ db'[HeaderKey(v)] = row
        /\ db'[ScopeKey(v, s)] = Sees(c, ScopeKey(v, s))
    BY <1>2, <1>5, <1>8, CommittedRows, KeysExist, KeysDiffer
  <1>10. Sees(c, ScopeKey(v, s)) = tx[c][ScopeKey(v, s)]
    BY DEF Sees, v, s
  <1>11. /\ db'[ScopeKey(v, s)] = Priced(m)
         /\ db'[HeaderKey(v)].totals[s] = m
    BY <1>4, <1>6, <1>7, <1>9, <1>10
  <1> QED
    BY <1>11 DEF v, s, m

\* Each statement of updateSpace writes to whatever draft it finds; when the
\* draft it began with still is the draft at the commit, all of them have
\* reached it, whichever requests ran in between.
THEOREM DraftReached == Spec => UpdateReachesDraft
  <1>1. IInv /\ [Next]_vars =>
           [\A c \in Clients :
              LET v == req[c].version
                  s == req[c].space
              IN  (/\ UpdateTotals(c)
                   /\ v # 0
                   /\ req[c].scopeOf = v
                   /\ ScopeKey(v, s) \in DOMAIN tx[c]
                   /\ IsDraftIn(db'[HeaderKey(v)]))
                  => /\ db'[ScopeKey(v, s)] = Priced(req[c].measure)
                     /\ db'[HeaderKey(v)].totals[s] = req[c].measure]_vars
    BY ReachesDraft
  <1> QED
    BY <1>1, Invariance, PTL DEF Spec, UpdateReachesDraft
=============================================================================
