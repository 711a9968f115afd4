------------------------- MODULE FleetReplayProofs --------------------------
(***************************************************************************)
(* The one-pass replay of the claims ledger computes the declarative       *)
(* projection, for every ledger that the store can produce.                *)
(***************************************************************************)
EXTENDS FleetReplay, FleetClaimsProofs, NaturalsInduction, WellFoundedInduction

-----------------------------------------------------------------------------
(* Induction: a set of naturals has a least element. *)

LEMMA LeastOf ==
    ASSUME NEW T, T \subseteq Nat, T # {}
    PROVE  \E m \in T : \A n \in T : m <= n
<1>1. PICK m \in T : \A n \in T : ~(<<n, m>> \in OpToRel(<, Nat))
  BY NatLessThanWellFounded, WFMin
<1>2. \A n \in T : ~(n < m)
  BY <1>1 DEF OpToRel
<1> QED
  BY <1>2

(* The dictionary after line n, from the one before it. *)
PassStep(L, ws, claims, n) ==
    IF Relevant(L[n], ws) THEN ReplayLine(claims, L[n]) ELSE claims

Follows(L, ws, f, N) ==
    f = [n \in 0 .. N |-> IF n = 0 THEN <<>> ELSE PassStep(L, ws, f[n - 1], n)]

(* The recursive function exists. *)
LEMMA PassExists ==
    ASSUME NEW L, NEW ws, NEW N \in Nat
    PROVE  \E f : Follows(L, ws, f, N)
<1> DEFINE Open == {m \in Nat : ~\E f : Follows(L, ws, f, m)}
<1> SUFFICES ASSUME Open # {} PROVE FALSE
  OBVIOUS
<1>1. PICK m \in Open : \A k \in Open : m <= k
  BY LeastOf
<1>2. m # 0
  <2>1. Follows(L, ws, [n \in 0 .. 0 |-> <<>>], 0)
    BY DEF Follows
  <2> QED BY <2>1
<1>3. m - 1 \in Nat /\ m - 1 \notin Open
  BY <1>1, <1>2
<1>4. PICK g : Follows(L, ws, g, m - 1)
  BY <1>3
<1> DEFINE h == [n \in 0 .. m |-> IF n = m THEN PassStep(L, ws, g[m - 1], m) ELSE g[n]]
<1>5. \A n \in 0 .. m : h[n] = IF n = 0 THEN <<>> ELSE PassStep(L, ws, h[n - 1], n)
  <2> SUFFICES ASSUME NEW n \in 0 .. m
               PROVE  h[n] = IF n = 0 THEN <<>> ELSE PassStep(L, ws, h[n - 1], n)
    OBVIOUS
  <2>1. CASE n = m
    <3>1. h[n] = PassStep(L, ws, g[m - 1], m) /\ h[m - 1] = g[m - 1]
      BY <1>1, <1>3, <2>1
    <3> QED BY <1>2, <2>1, <3>1
  <2>2. CASE n # m
    <3>1. n \in 0 .. (m - 1) /\ h[n] = g[n]
      BY <1>1, <2>2
    <3>2. g[n] = IF n = 0 THEN <<>> ELSE PassStep(L, ws, g[n - 1], n)
      BY <1>4, <3>1 DEF Follows
    <3>3. n # 0 => h[n - 1] = g[n - 1]
      BY <1>1, <2>2
    <3> QED BY <3>1, <3>2, <3>3
  <2> QED BY <2>1, <2>2
<1>6. Follows(L, ws, h, m)
  BY <1>5 DEF Follows
<1> QED
  BY <1>1, <1>6

LEMMA PassUnfolds ==
    ASSUME NEW L, NEW ws, Len(L) \in Nat
    PROVE  /\ ReplayPass(L, ws)[0] = <<>>
           /\ \A n \in 1 .. Len(L) :
                 ReplayPass(L, ws)[n] = PassStep(L, ws, ReplayPass(L, ws)[n - 1], n)
<1> DEFINE R == ReplayPass(L, ws)
<1>1. R = CHOOSE f : f = [n \in 0 .. Len(L) |->
            CASE n = 0 -> <<>>
              [] n > 0 /\ Relevant(L[n], ws) -> ReplayLine(f[n - 1], L[n])
              [] OTHER -> f[n - 1]]
  BY DEF ReplayPass
<1>2. \A f, n : n \in 0 .. Len(L) =>
         (CASE n = 0 -> <<>>
            [] n > 0 /\ Relevant(L[n], ws) -> ReplayLine(f[n - 1], L[n])
            [] OTHER -> f[n - 1])
         = IF n = 0 THEN <<>> ELSE PassStep(L, ws, f[n - 1], n)
  BY DEF PassStep
<1>3. \E f : f = [n \in 0 .. Len(L) |->
            CASE n = 0 -> <<>>
              [] n > 0 /\ Relevant(L[n], ws) -> ReplayLine(f[n - 1], L[n])
              [] OTHER -> f[n - 1]]
  <2>1. PICK f : Follows(L, ws, f, Len(L))
    BY PassExists
  <2>2. [n \in 0 .. Len(L) |-> IF n = 0 THEN <<>> ELSE PassStep(L, ws, f[n - 1], n)]
        = [n \in 0 .. Len(L) |->
            CASE n = 0 -> <<>>
              [] n > 0 /\ Relevant(L[n], ws) -> ReplayLine(f[n - 1], L[n])
              [] OTHER -> f[n - 1]]
    BY <1>2
  <2> QED BY <2>1, <2>2 DEF Follows
<1>4. R = [n \in 0 .. Len(L) |->
            CASE n = 0 -> <<>>
              [] n > 0 /\ Relevant(L[n], ws) -> ReplayLine(R[n - 1], L[n])
              [] OTHER -> R[n - 1]]
  BY <1>1, <1>3
<1> QED
  BY <1>2, <1>4

-----------------------------------------------------------------------------
(* What the pass has computed after n lines.  Lines of one claim carry one   *)
(* authority, so that a filter keeps all of them or none, and a refusal      *)
(* carries no claim's id.                                                    *)

LinesOK(L) ==
    /\ L \in Seq(Entry)
    /\ \A i \in 1 .. Len(L) : L[i].kind = "claim_refused_conflict" => L[i].claim = NoClaim
    /\ \A i, j \in 1 .. Len(L) :
          L[i].claim = L[j].claim /\ L[i].claim # NoClaim => L[i].ws = L[j].ws

(* The definitions of FleetClaims, of the first n lines. *)
OpenTo(L, ws, i, n) ==
    /\ L[i].kind \in AcquireKinds /\ Relevant(L[i], ws)
    /\ \A j \in (i + 1) .. n : SameClaim(L, i, j) => L[j].kind \notin AcquireKinds \cup EndKinds

LeaseTo(L, i, k, n) ==
    /\ SameClaim(L, i, k) /\ L[k].kind \in LeaseKinds
    /\ \A j \in (k + 1) .. n : SameClaim(L, i, j) => L[j].kind \notin LeaseKinds

ClaimedTo(L, i, n) ==
    \E k \in i .. n :
        /\ SameClaim(L, i, k) /\ L[k].kind \in LeaseKinds
        /\ \A j \in (k + 1) .. n : SameClaim(L, i, j) => L[j].kind \notin StageKinds

StateNames == {"claimed", "editing", "tests_running", "ready_for_integration", "blocked"}

NormalizedSets == {Normalized(raws) : raws \in RawPathSets}

ClaimRecord ==
    [ws : Authorities, paths : NormalizedSets, base : Bases, expires : Nat, state : StateNames]

Describes(L, x, i, n) ==
    /\ x \in ClaimRecord
    /\ x.ws = L[i].ws /\ x.paths = L[i].paths /\ x.base = L[i].base
    /\ \E k \in i .. n : LeaseTo(L, i, k, n) /\ x.expires = L[k].ts + L[k].ttl
    /\ x.state = "claimed" <=> ClaimedTo(L, i, n)

Right(L, ws, D, n, c) ==
    /\ c \in DOMAIN D => \E i \in 1 .. n : OpenTo(L, ws, i, n) /\ L[i].claim = c
    /\ \A i \in 1 .. n : OpenTo(L, ws, i, n) /\ L[i].claim = c =>
          c \in DOMAIN D /\ Describes(L, D[c], i, n)

Tracks(L, ws, D, n) ==
    /\ DOMAIN D \subseteq Claims
    /\ \A c \in Claims : Right(L, ws, D, n, c)

LEMMA LineFacts ==
    ASSUME NEW L, LinesOK(L), NEW n \in 1 .. Len(L), L[n].kind # "garbled"
    PROVE  /\ L[n] \in EventType
           /\ L[n].kind # "claim_refused_conflict" => L[n].claim \in Claims
           /\ L[n].kind = "claim_refused_conflict" => L[n].claim \notin Claims
           /\ L[n].ws \in Authorities /\ L[n].base \in Bases
           /\ L[n].paths \in NormalizedSets
           /\ L[n].ts + L[n].ttl \in Nat
<1>1. L[n] \in EventType
  BY ElementOfSeq DEF LinesOK, Entry, Garbled
<1>2. /\ L[n].ws \in Authorities /\ L[n].base \in Bases
      /\ L[n].paths \in NormalizedSets
      /\ L[n].ts \in Nat /\ L[n].ttl \in TTLs \cup {0}
      /\ L[n].kind # "claim_refused_conflict" => L[n].claim \in Claims
  BY <1>1 DEF EventType, AboutClaim, NormalizedSets
<1>3. L[n].ts + L[n].ttl \in Nat
  <2>1. TTLs \subseteq Nat
    BY FleetAssumptions
  <2>2. CASE L[n].ttl = 0
    BY <1>2, <2>2
  <2>3. CASE L[n].ttl \in TTLs
    <3>1. L[n].ttl \in Nat
      BY <2>1, <2>3, Zenon
    <3> QED BY <1>2, <3>1
  <2> QED BY <1>2, <2>2, <2>3
<1>4. L[n].kind = "claim_refused_conflict" => L[n].claim \notin Claims
  BY FleetAssumptions DEF LinesOK
<1> QED
  BY <1>1, <1>2, <1>3, <1>4

(* A line of another claim changes nothing for claim c. *)
LEMMA OtherLine ==
    ASSUME NEW L, LinesOK(L), NEW ws, NEW n \in 1 .. Len(L), NEW D, NEW E,
           NEW c \in Claims, c # L[n].claim, Right(L, ws, D, n - 1, c),
           c \in DOMAIN E <=> c \in DOMAIN D, c \in DOMAIN D => E[c] = D[c]
    PROVE  Right(L, ws, E, n, c)
<1>0. Len(L) \in Nat /\ n \in Nat /\ n - 1 \in Nat
  BY LenProperties DEF LinesOK
<1>1. \A i \in 1 .. (n - 1) : L[i].claim = c =>
         /\ OpenTo(L, ws, i, n) <=> OpenTo(L, ws, i, n - 1)
         /\ \A k \in i .. (n - 1) : LeaseTo(L, i, k, n - 1) => LeaseTo(L, i, k, n)
         /\ ClaimedTo(L, i, n) <=> ClaimedTo(L, i, n - 1)
  <2> SUFFICES ASSUME NEW i \in 1 .. (n - 1), L[i].claim = c
               PROVE  /\ OpenTo(L, ws, i, n) <=> OpenTo(L, ws, i, n - 1)
                      /\ \A k \in i .. (n - 1) : LeaseTo(L, i, k, n - 1) => LeaseTo(L, i, k, n)
                      /\ ClaimedTo(L, i, n) <=> ClaimedTo(L, i, n - 1)
    OBVIOUS
  <2>1. ~SameClaim(L, i, n)
    BY DEF SameClaim
  <2>2. OpenTo(L, ws, i, n) <=> OpenTo(L, ws, i, n - 1)
    BY <1>0, <2>1 DEF OpenTo
  <2>3. \A k \in i .. (n - 1) : LeaseTo(L, i, k, n - 1) => LeaseTo(L, i, k, n)
    BY <1>0, <2>1 DEF LeaseTo
  <2>4. ClaimedTo(L, i, n) => ClaimedTo(L, i, n - 1)
    BY <1>0, <2>1 DEF ClaimedTo
  <2>5. ClaimedTo(L, i, n - 1) => ClaimedTo(L, i, n)
    BY <1>0, <2>1 DEF ClaimedTo
  <2> QED BY <2>2, <2>3, <2>4, <2>5
<1>2. \A i \in 1 .. n : L[i].claim = c => i \in 1 .. (n - 1)
  BY <1>0
<1>3. 1 .. (n - 1) \subseteq 1 .. n
  BY <1>0
<1>4. ASSUME NEW i \in 1 .. n, OpenTo(L, ws, i, n), L[i].claim = c
      PROVE  c \in DOMAIN E /\ Describes(L, E[c], i, n)
  <2>1. i \in 1 .. (n - 1) /\ OpenTo(L, ws, i, n - 1)
    BY <1>1, <1>2, <1>4
  <2>2. c \in DOMAIN D /\ Describes(L, D[c], i, n - 1) /\ E[c] = D[c]
    BY <1>4, <2>1 DEF Right
  <2>3. PICK k \in i .. (n - 1) : LeaseTo(L, i, k, n - 1) /\ D[c].expires = L[k].ts + L[k].ttl
    BY <2>2 DEF Describes
  <2>4. k \in i .. n /\ LeaseTo(L, i, k, n)
    BY <1>0, <1>1, <1>4, <2>1, <2>3
  <2>5. ClaimedTo(L, i, n) <=> ClaimedTo(L, i, n - 1)
    BY <1>1, <1>4, <2>1
  <2> QED BY <2>2, <2>3, <2>4, <2>5 DEF Describes
<1>5. c \in DOMAIN E => \E i \in 1 .. n : OpenTo(L, ws, i, n) /\ L[i].claim = c
  BY <1>1, <1>3 DEF Right
<1> QED
  BY <1>4, <1>5 DEF Right

(* Claims that no open line has are not in the dictionary. *)
LEMMA NoOpenLine ==
    ASSUME NEW L, NEW ws, NEW n, NEW E, NEW c, c \notin DOMAIN E,
           \A i \in 1 .. n : ~(OpenTo(L, ws, i, n) /\ L[i].claim = c)
    PROVE  Right(L, ws, E, n, c)
BY DEF Right

(* A line that the filter skips is about no claim of the dictionary. *)
LEMMA SkippedLine ==
    ASSUME NEW L, LinesOK(L), NEW ws, NEW n \in 1 .. Len(L), NEW D,
           ~Relevant(L[n], ws), Tracks(L, ws, D, n - 1)
    PROVE  Tracks(L, ws, D, n)
<1>0. Len(L) \in Nat /\ n \in Nat /\ n - 1 \in Nat
  BY LenProperties DEF LinesOK
<1>1. ASSUME NEW c \in Claims, c # L[n].claim PROVE Right(L, ws, D, n, c)
  BY <1>1, OtherLine DEF Tracks
<1>2. ASSUME NEW c \in Claims, c = L[n].claim PROVE Right(L, ws, D, n, c)
  <2>1. c # NoClaim
    BY FleetAssumptions
  <2>2. L[n].kind # "garbled"
    <3>1. L[n] \in Entry
    BY ElementOfSeq DEF LinesOK
    <3> QED BY <1>2, <2>1, <3>1 DEF Entry, Garbled, EventType, Kinds, LeaseKinds, AcquireKinds,
               EndKinds, TerminalKinds, StageKinds
  <2>3. \A i \in 1 .. Len(L) : L[i].claim = c => ~Relevant(L[i], ws)
    BY <1>2, <2>1, <2>2 DEF LinesOK, Relevant
  <2>4. \A m : \A i \in 1 .. Len(L) : L[i].claim = c => ~OpenTo(L, ws, i, m)
    BY <2>3 DEF OpenTo
  <2>5. 1 .. n \subseteq 1 .. Len(L) /\ 1 .. (n - 1) \subseteq 1 .. Len(L)
    BY <1>0
  <2>6. c \notin DOMAIN D
    BY <2>4, <2>5 DEF Tracks, Right
  <2> QED BY <2>4, <2>5, <2>6, NoOpenLine
<1> QED
  BY <1>1, <1>2 DEF Tracks

LEMMA NewRecord ==
    ASSUME NEW w \in Authorities, NEW q \in NormalizedSets, NEW b \in Bases, NEW t \in Nat
    PROVE  [ws |-> w, paths |-> q, base |-> b, expires |-> t, state |-> "claimed"] \in ClaimRecord
BY DEF ClaimRecord, StateNames

LEMMA StagedRecord ==
    ASSUME NEW x \in ClaimRecord, NEW s \in StateNames, NEW y, y = [x EXCEPT !.state = s]
    PROVE  /\ y \in ClaimRecord /\ y.ws = x.ws /\ y.paths = x.paths /\ y.base = x.base
           /\ y.expires = x.expires /\ y.state = s
BY DEF ClaimRecord

LEMMA StageNames ==
    ASSUME NEW kind \in StageKinds
    PROVE  StateAfter[kind] \in StateNames /\ StateAfter[kind] # "claimed"
<1>1. CASE kind = "edit_started"
  BY <1>1 DEF StateAfter, StateNames
<1>2. CASE kind = "tests_completed"
  BY <1>2 DEF StateAfter, StateNames
<1>3. CASE kind = "ready_for_integration"
  BY <1>3 DEF StateAfter, StateNames
<1>4. CASE kind = "integration_refused_stale_base"
  BY <1>4 DEF StateAfter, StateNames
<1> QED BY <1>1, <1>2, <1>3, <1>4 DEF StageKinds

(* The line by its kind. *)
LEMMA LineByKind ==
    ASSUME NEW D, NEW e
    PROVE  /\ e.kind = "claim_renewed" /\ e.claim \in DOMAIN D => ReplayLine(D, e) =
                [D EXCEPT ![e.claim] =
                    [D[e.claim] EXCEPT !.expires = e.ts + e.ttl, !.state = "claimed"]]
           /\ e.kind \in StageKinds /\ e.claim \in DOMAIN D => ReplayLine(D, e) =
                [D EXCEPT ![e.claim] = [D[e.claim] EXCEPT !.state = StateAfter[e.kind]]]
           /\ e.kind \in StageKinds \cup {"claim_renewed"} /\ e.claim \notin DOMAIN D =>
                ReplayLine(D, e) = D
           /\ e.kind \in EndKinds \cup {"claim_refused_conflict"} => ReplayLine(D, e) =
                [d \in DOMAIN D \ {e.claim} |-> D[d]]
<1>1. ASSUME e.kind = "claim_renewed", e.claim \in DOMAIN D
      PROVE  ReplayLine(D, e) = [D EXCEPT ![e.claim] =
                    [D[e.claim] EXCEPT !.expires = e.ts + e.ttl, !.state = "claimed"]]
  <2>1. e.kind \notin AcquireKinds \cup StageKinds \cup EndKinds \cup {"claim_refused_conflict"}
    BY <1>1 DEF AcquireKinds, StageKinds, EndKinds, TerminalKinds
  <2> QED BY <1>1, <2>1 DEF ReplayLine
<1>2. ASSUME e.kind \in StageKinds, e.claim \in DOMAIN D
      PROVE  ReplayLine(D, e) =
                [D EXCEPT ![e.claim] = [D[e.claim] EXCEPT !.state = StateAfter[e.kind]]]
  <2>1. e.kind \notin LeaseKinds \cup EndKinds \cup {"claim_refused_conflict"}
    BY <1>2 DEF LeaseKinds, AcquireKinds, StageKinds, EndKinds, TerminalKinds
  <2> QED BY <1>2, <2>1 DEF ReplayLine, LeaseKinds
<1>3. ASSUME e.kind \in StageKinds \cup {"claim_renewed"}, e.claim \notin DOMAIN D
      PROVE  ReplayLine(D, e) = D
  <2>1. e.kind \notin AcquireKinds \cup EndKinds \cup {"claim_refused_conflict"}
    BY <1>3 DEF AcquireKinds, StageKinds, EndKinds, TerminalKinds
  <2> QED BY <1>3, <2>1 DEF ReplayLine
<1>4. ASSUME e.kind \in EndKinds \cup {"claim_refused_conflict"}
      PROVE  ReplayLine(D, e) = [d \in DOMAIN D \ {e.claim} |-> D[d]]
  <2>1. e.kind \notin LeaseKinds \cup StageKinds
    BY <1>4 DEF LeaseKinds, AcquireKinds, StageKinds, EndKinds, TerminalKinds
  <2> QED BY <1>4, <2>1 DEF ReplayLine, LeaseKinds
<1> QED
  BY <1>1, <1>2, <1>3, <1>4

(* The line that the step applies is about claim c. *)
LEMMA AcquiringLine ==
    ASSUME NEW L, LinesOK(L), NEW ws, NEW n \in 1 .. Len(L), NEW D, NEW E,
           L[n].kind \in AcquireKinds, Relevant(L[n], ws), NEW c, c = L[n].claim,
           c \in DOMAIN E, E[c] = EventToActiveClaim(L[n])
    PROVE  Right(L, ws, E, n, c)
<1>0. Len(L) \in Nat /\ n \in Nat /\ (n + 1) .. n = {} /\ n \in n .. n
  BY LenProperties DEF LinesOK
<1>1. OpenTo(L, ws, n, n)
  BY <1>0 DEF OpenTo
<1>2. \A i \in 1 .. n : OpenTo(L, ws, i, n) /\ L[i].claim = c => i = n
  BY <1>0 DEF OpenTo, SameClaim
<1>3. L[n].kind \in LeaseKinds /\ SameClaim(L, n, n)
  BY DEF LeaseKinds, SameClaim
<1>4. LeaseTo(L, n, n, n) /\ ClaimedTo(L, n, n)
  BY <1>0, <1>3 DEF LeaseTo, ClaimedTo
<1>5. EventToActiveClaim(L[n]) \in ClaimRecord
  <2>1. L[n].kind # "garbled"
    BY DEF Relevant
  <2> QED BY <2>1, LineFacts, NewRecord DEF EventToActiveClaim
<1>6. Describes(L, E[c], n, n)
  BY <1>0, <1>4, <1>5 DEF Describes, EventToActiveClaim
<1> QED
  BY <1>0, <1>1, <1>2, <1>6 DEF Right

(* What the open lines of the claim are after a line that changes it. *)
LEMMA ChangingLine ==
    ASSUME NEW L, LinesOK(L), NEW ws, NEW n \in 1 .. Len(L), NEW D, NEW E,
           NEW c \in Claims, c = L[n].claim, Right(L, ws, D, n - 1, c),
           L[n].kind \notin AcquireKinds \cup EndKinds,
           c \in DOMAIN D <=> c \in DOMAIN E,
           \A i \in 1 .. (n - 1) :
              /\ OpenTo(L, ws, i, n - 1) /\ L[i].claim = c
              /\ c \in DOMAIN D /\ Describes(L, D[c], i, n - 1)
              => Describes(L, E[c], i, n)
    PROVE  Right(L, ws, E, n, c)
<1>0. Len(L) \in Nat /\ n \in Nat /\ n - 1 \in Nat /\ 1 .. (n - 1) \subseteq 1 .. n
  BY LenProperties DEF LinesOK
<1>1. \A i \in 1 .. n : OpenTo(L, ws, i, n) => i \in 1 .. (n - 1) /\ OpenTo(L, ws, i, n - 1)
  BY <1>0 DEF OpenTo
<1>2. \A i \in 1 .. (n - 1) : OpenTo(L, ws, i, n - 1) => OpenTo(L, ws, i, n)
  BY <1>0 DEF OpenTo
<1> QED
  BY <1>0, <1>1, <1>2 DEF Right

LEMMA RenewingLine ==
    ASSUME NEW L, LinesOK(L), NEW ws, NEW n \in 1 .. Len(L), NEW D,
           NEW c \in Claims, c = L[n].claim, Right(L, ws, D, n - 1, c),
           L[n].kind = "claim_renewed", c \in DOMAIN D
    PROVE  Right(L, ws, ReplayLine(D, L[n]), n, c)
<1> DEFINE E == ReplayLine(D, L[n])
           x == [D[c] EXCEPT !.expires = L[n].ts + L[n].ttl, !.state = "claimed"]
<1>0. Len(L) \in Nat /\ n \in Nat /\ n - 1 \in Nat /\ (n + 1) .. n = {}
  BY LenProperties DEF LinesOK
<1>1. E = [D EXCEPT ![c] = x]
  BY LineByKind
<1>2. DOMAIN E = DOMAIN D /\ E[c] = x
  BY <1>1
<1>3. ASSUME NEW i \in 1 .. (n - 1), L[i].claim = c, Describes(L, D[c], i, n - 1)
      PROVE  Describes(L, x, i, n)
  <2>1. D[c] \in ClaimRecord /\ L[n].ts + L[n].ttl \in Nat
    BY <1>3, LineFacts DEF Describes
  <2>2. /\ x \in ClaimRecord /\ x.ws = D[c].ws /\ x.paths = D[c].paths /\ x.base = D[c].base
        /\ x.expires = L[n].ts + L[n].ttl /\ x.state = "claimed"
    <3>1. PICK t \in Nat : t = L[n].ts + L[n].ttl
      BY <2>1
    <3>2. PICK y : y = [D[c] EXCEPT !.expires = t, !.state = "claimed"]
      OBVIOUS
    <3>3. y = x
      BY <3>1, <3>2
    <3>4. /\ y \in ClaimRecord /\ y.ws = D[c].ws /\ y.paths = D[c].paths /\ y.base = D[c].base
          /\ y.expires = t /\ y.state = "claimed"
      BY <2>1, <3>2, <3>1 DEF ClaimRecord, StateNames
    <3> QED BY <3>1, <3>3, <3>4
  <2>3. SameClaim(L, i, n) /\ n \in i .. n /\ L[n].kind \in LeaseKinds
    BY <1>0, <1>3 DEF SameClaim, LeaseKinds
  <2>4. LeaseTo(L, i, n, n) /\ ClaimedTo(L, i, n)
    BY <1>0, <2>3 DEF LeaseTo, ClaimedTo
  <2> HIDE DEF x
  <2> QED BY <1>3, <2>2, <2>3, <2>4 DEF Describes
<1>4. L[n].kind \notin AcquireKinds \cup EndKinds
  BY DEF AcquireKinds, EndKinds, TerminalKinds
<1> HIDE DEF E, x
<1> QED
  BY <1>2, <1>3, <1>4, ChangingLine DEF E

LEMMA StagingLine ==
    ASSUME NEW L, LinesOK(L), NEW ws, NEW n \in 1 .. Len(L), NEW D,
           NEW c \in Claims, c = L[n].claim, Right(L, ws, D, n - 1, c),
           L[n].kind \in StageKinds, c \in DOMAIN D
    PROVE  Right(L, ws, ReplayLine(D, L[n]), n, c)
<1> DEFINE E == ReplayLine(D, L[n])
           x == [D[c] EXCEPT !.state = StateAfter[L[n].kind]]
<1>0. Len(L) \in Nat /\ n \in Nat /\ n - 1 \in Nat
  BY LenProperties DEF LinesOK
<1>1. E = [D EXCEPT ![c] = x]
  BY LineByKind
<1>2. DOMAIN E = DOMAIN D /\ E[c] = x
  BY <1>1
<1>3. StateAfter[L[n].kind] \in StateNames /\ StateAfter[L[n].kind] # "claimed"
  BY StageNames
<1>4. ASSUME NEW i \in 1 .. (n - 1), L[i].claim = c, Describes(L, D[c], i, n - 1)
      PROVE  Describes(L, x, i, n)
  <2>1. D[c] \in ClaimRecord
    BY <1>4 DEF Describes
  <2>2. /\ x \in ClaimRecord /\ x.ws = D[c].ws /\ x.paths = D[c].paths /\ x.base = D[c].base
        /\ x.expires = D[c].expires /\ x.state # "claimed"
    BY <1>3, <2>1, StagedRecord
  <2>3. PICK k \in i .. (n - 1) : LeaseTo(L, i, k, n - 1) /\ D[c].expires = L[k].ts + L[k].ttl
    BY <1>4 DEF Describes
  <2>4. L[n].kind \notin LeaseKinds /\ SameClaim(L, i, n)
    BY <1>4 DEF StageKinds, LeaseKinds, AcquireKinds, SameClaim
  <2>5. k \in i .. n /\ LeaseTo(L, i, k, n)
    BY <1>0, <2>3, <2>4 DEF LeaseTo
  <2>6. ~ClaimedTo(L, i, n)
    BY <1>0, <2>4 DEF ClaimedTo
  <2> HIDE DEF x
  <2> QED BY <1>4, <2>2, <2>3, <2>5, <2>6 DEF Describes
<1>5. L[n].kind \notin AcquireKinds \cup EndKinds
  BY DEF AcquireKinds, EndKinds, TerminalKinds, StageKinds
<1> HIDE DEF E, x
<1> QED
  BY <1>2, <1>4, <1>5, ChangingLine DEF E

LEMMA AcquiredDictionary ==
    ASSUME NEW D, NEW e, e.kind \in AcquireKinds
    PROVE  /\ DOMAIN ReplayLine(D, e) = DOMAIN D \cup {e.claim}
           /\ ReplayLine(D, e)[e.claim] = EventToActiveClaim(e)
           /\ \A d \in DOMAIN D \ {e.claim} : ReplayLine(D, e)[d] = D[d]
<1>1. e.kind \notin StageKinds \cup EndKinds \cup {"claim_refused_conflict", "claim_renewed"}
  BY DEF AcquireKinds, StageKinds, EndKinds, TerminalKinds
<1>2. ReplayLine(D, e) = [c \in DOMAIN D \cup {e.claim} |->
                             IF c = e.claim THEN EventToActiveClaim(e) ELSE D[c]]
  BY <1>1 DEF ReplayLine
<1> QED
  BY <1>2

(* A line that ends its claim. *)
LEMMA EndingLine ==
    ASSUME NEW L, LinesOK(L), NEW ws, NEW n \in 1 .. Len(L), NEW E,
           NEW c, c = L[n].claim, L[n].kind \in EndKinds, c \notin DOMAIN E
    PROVE  Right(L, ws, E, n, c)
<1>0. Len(L) \in Nat /\ n \in Nat
  BY LenProperties DEF LinesOK
<1>1. L[n].kind \notin AcquireKinds
  BY DEF AcquireKinds, EndKinds, TerminalKinds
<1>2. \A i \in 1 .. n : ~(OpenTo(L, ws, i, n) /\ L[i].claim = c)
  BY <1>0, <1>1 DEF OpenTo, SameClaim
<1> QED
  BY <1>2, NoOpenLine

(* A renewal or stage of a claim that the dictionary does not have. *)
LEMMA LateLine ==
    ASSUME NEW L, LinesOK(L), NEW ws, NEW n \in 1 .. Len(L), NEW D,
           NEW c \in Claims, c = L[n].claim, Right(L, ws, D, n - 1, c), c \notin DOMAIN D,
           L[n].kind \in StageKinds \cup {"claim_renewed"}
    PROVE  Right(L, ws, D, n, c)
<1>1. L[n].kind \notin AcquireKinds \cup EndKinds
  BY DEF AcquireKinds, EndKinds, TerminalKinds, StageKinds
<1> QED
  BY <1>1, ChangingLine

(* Every line keeps the dictionary right. *)
LEMMA StepTracks ==
    ASSUME NEW L, LinesOK(L), NEW ws, NEW n \in 1 .. Len(L), NEW D,
           Tracks(L, ws, D, n - 1)
    PROVE  Tracks(L, ws, PassStep(L, ws, D, n), n)
<1>1. CASE ~Relevant(L[n], ws)
  BY <1>1, SkippedLine DEF PassStep
<1>2. CASE Relevant(L[n], ws)
  <2> DEFINE e == L[n]
             E == ReplayLine(D, e)
  <2>1. PassStep(L, ws, D, n) = E
    BY <1>2 DEF PassStep
  <2>2. e.kind # "garbled" /\ e.kind \in Kinds
    BY <1>2, LineFacts DEF Relevant, EventType
  <2>3. DOMAIN D \subseteq Claims /\ \A c \in Claims : Right(L, ws, D, n - 1, c)
    BY DEF Tracks
  <2>4. CASE e.kind \in AcquireKinds
    <3>1. e.claim \in Claims
      BY <2>2, <2>4, LineFacts DEF AcquireKinds
    <3>2. /\ DOMAIN E = DOMAIN D \cup {e.claim}
          /\ E[e.claim] = EventToActiveClaim(e)
          /\ \A d \in DOMAIN D \ {e.claim} : E[d] = D[d]
      BY <2>4, AcquiredDictionary
    <3> HIDE DEF E
    <3>3. ASSUME NEW c \in Claims, c # e.claim PROVE Right(L, ws, E, n, c)
      BY <2>3, <3>2, <3>3, OtherLine
    <3>4. Right(L, ws, E, n, e.claim)
      BY <1>2, <2>4, <3>2, AcquiringLine
    <3> QED BY <2>1, <2>3, <3>1, <3>2, <3>3, <3>4 DEF Tracks
  <2>5. CASE e.kind \in StageKinds \cup {"claim_renewed"}
    <3>1. e.claim \in Claims
      BY <2>2, <2>5, LineFacts DEF StageKinds
    <3>2. CASE e.claim \notin DOMAIN D
      <4>1. E = D
        BY <2>5, <3>2, LineByKind
      <4>2. ASSUME NEW c \in Claims, c # e.claim PROVE Right(L, ws, D, n, c)
        BY <2>3, <4>2, OtherLine
      <4>3. Right(L, ws, D, n, e.claim)
        BY <2>3, <2>5, <3>1, <3>2, LateLine
      <4> HIDE DEF E
      <4> QED BY <2>1, <2>3, <4>1, <4>2, <4>3 DEF Tracks
    <3>3. CASE e.claim \in DOMAIN D
      <4>1. \E x : E = [D EXCEPT ![e.claim] = x]
        <5>1. CASE e.kind = "claim_renewed"
          <6> DEFINE x == [D[e.claim] EXCEPT !.expires = e.ts + e.ttl, !.state = "claimed"]
          <6>1. E = [D EXCEPT ![e.claim] = x]
            BY <3>3, <5>1, LineByKind
          <6> HIDE DEF x, E
          <6> QED BY <6>1
        <5>2. CASE e.kind \in StageKinds
          <6> DEFINE x == [D[e.claim] EXCEPT !.state = StateAfter[e.kind]]
          <6>1. E = [D EXCEPT ![e.claim] = x]
            BY <3>3, <5>2, LineByKind
          <6> HIDE DEF x, E
          <6> QED BY <6>1
        <5> QED BY <2>5, <5>1, <5>2
      <4>2. DOMAIN E = DOMAIN D /\ \A d \in DOMAIN D \ {e.claim} : E[d] = D[d]
        BY <4>1
      <4>3. Right(L, ws, E, n, e.claim)
        BY <2>3, <2>5, <3>1, <3>3, RenewingLine, StagingLine
      <4> HIDE DEF E
      <4>4. ASSUME NEW c \in Claims, c # e.claim PROVE Right(L, ws, E, n, c)
        BY <2>3, <4>2, <4>4, OtherLine
      <4> QED BY <2>1, <2>3, <4>2, <4>3, <4>4 DEF Tracks
    <3> QED BY <3>2, <3>3
  <2>6. CASE e.kind \in EndKinds \cup {"claim_refused_conflict"}
    <3>1. E = [d \in DOMAIN D \ {e.claim} |-> D[d]]
      BY <2>6, LineByKind
    <3>2. DOMAIN E = DOMAIN D \ {e.claim} /\ \A d \in DOMAIN E : E[d] = D[d]
      BY <3>1
    <3> HIDE DEF E
    <3>3. ASSUME NEW c \in Claims, c # e.claim PROVE Right(L, ws, E, n, c)
      BY <2>3, <3>2, <3>3, OtherLine
    <3>4. ASSUME e.claim \in Claims PROVE Right(L, ws, E, n, e.claim)
      <4>1. e.kind \in EndKinds
        BY <2>2, <2>6, <3>4, LineFacts
      <4> QED BY <3>2, <4>1, EndingLine
    <3> QED BY <2>1, <2>3, <3>2, <3>3, <3>4 DEF Tracks
  <2> QED BY <2>2, <2>4, <2>5, <2>6 DEF Kinds, LeaseKinds
<1> QED
  BY <1>1, <1>2

(* The pass is right after every number of lines. *)
LEMMA PassTracks ==
    ASSUME NEW L, LinesOK(L), NEW ws
    PROVE  Tracks(L, ws, ReplayPass(L, ws)[Len(L)], Len(L))
<1> DEFINE R == ReplayPass(L, ws)
           Wrong == {m \in 0 .. Len(L) : ~Tracks(L, ws, R[m], m)}
<1>0. Len(L) \in Nat
  BY LenProperties DEF LinesOK
<1>1. R[0] = <<>> /\ \A n \in 1 .. Len(L) : R[n] = PassStep(L, ws, R[n - 1], n)
  BY <1>0, PassUnfolds
<1> HIDE DEF R
<1>2. Tracks(L, ws, R[0], 0)
  <2>1. DOMAIN R[0] = {}
    BY <1>1
  <2> QED BY <2>1 DEF Tracks, Right
<1>3. Wrong = {}
  <2> SUFFICES ASSUME Wrong # {} PROVE FALSE
    OBVIOUS
  <2>1. PICK m \in Wrong : \A k \in Wrong : m <= k
    <3>1. Wrong \subseteq Nat
      BY <1>0
    <3> HIDE DEF Wrong
    <3> QED BY <3>1, LeastOf
  <2>2. m \in 1 .. Len(L) /\ m - 1 \in 0 .. Len(L) /\ m - 1 \notin Wrong
    BY <1>0, <1>2, <2>1
  <2>3. Tracks(L, ws, R[m - 1], m - 1)
    BY <2>2
  <2>4. Tracks(L, ws, R[m], m)
    BY <1>1, <2>2, <2>3, StepTracks
  <2> QED BY <2>1, <2>4
<1>4. Len(L) \in 0 .. Len(L)
  BY <1>0
<1> QED
  BY <1>3, <1>4 DEF R

-----------------------------------------------------------------------------
(* The dictionary of the whole ledger, filtered by expiry, is the projection. *)

LEMMA LastLease ==
    ASSUME NEW L, LinesOK(L), NEW t \in Nat, NEW i \in 1 .. Len(L), NEW x,
           Describes(L, x, i, Len(L))
    PROVE  x.expires > t <=> Unexpired(L, i, t)
<1>0. Len(L) \in Nat
  BY LenProperties DEF LinesOK
<1>1. PICK k \in i .. Len(L) : LeaseTo(L, i, k, Len(L)) /\ x.expires = L[k].ts + L[k].ttl
  BY DEF Describes
<1>2. x.expires > t => Unexpired(L, i, t)
  BY <1>1 DEF LeaseTo, Unexpired
<1>3. ASSUME Unexpired(L, i, t) PROVE x.expires > t
  <2>1. PICK m \in i .. Len(L) : LeaseTo(L, i, m, Len(L)) /\ L[m].ts + L[m].ttl > t
    BY <1>3 DEF LeaseTo, Unexpired
  <2>2. ~(m < k) /\ ~(k < m)
    BY <1>0, <1>1, <2>1 DEF LeaseTo
  <2>3. m = k
    BY <1>0, <1>1, <2>1, <2>2
  <2> QED BY <1>1, <2>1, <2>3
<1> QED
  BY <1>2, <1>3

LEMMA OpenIsUnended ==
    ASSUME NEW L, NEW ws, NEW i
    PROVE  OpenTo(L, ws, i, Len(L)) <=> Unended(L, i) /\ (ws = "any" \/ L[i].ws = ws)
BY DEF OpenTo, Unended, Relevant, AcquireKinds

(* Dictionary R holds the claims acquired at the lines A of L. *)
Projects(R, L, A) ==
    /\ DOMAIN R = {L[i].claim : i \in A}
    /\ \A i \in A : /\ R[L[i].claim].ws = L[i].ws
                    /\ R[L[i].claim].paths = L[i].paths
                    /\ R[L[i].claim].base = L[i].base
                    /\ R[L[i].claim].state = "claimed" <=> InClaimedState(L, i)

LEMMA ReplayIsProjection ==
    ASSUME NEW L, LinesOK(L), NEW ws, NEW t \in Nat, NEW A,
           A = IF ws = "any" THEN Active(L, t) ELSE ActiveIn(L, t, ws)
    PROVE  Projects(ReplayActiveClaims(L, ws, t), L, A)
<1> DEFINE D == ReplayPass(L, ws)[Len(L)]
           R == ReplayActiveClaims(L, ws, t)
<1>1. R = [c \in {d \in DOMAIN D : D[d].expires > t} |-> D[c]]
  BY DEF ReplayActiveClaims
<1>2. DOMAIN D \subseteq Claims /\ \A c \in Claims : Right(L, ws, D, Len(L), c)
  BY PassTracks DEF Tracks
<1> HIDE DEF D, R
<1>3. A = {i \in 1 .. Len(L) : OpenTo(L, ws, i, Len(L)) /\ Unexpired(L, i, t)}
  BY OpenIsUnended DEF Active, ActiveIn
<1>4. ASSUME NEW i \in 1 .. Len(L), OpenTo(L, ws, i, Len(L))
      PROVE  /\ L[i].claim \in DOMAIN D /\ Describes(L, D[L[i].claim], i, Len(L))
             /\ D[L[i].claim].expires > t <=> Unexpired(L, i, t)
  <2>1. L[i].kind # "garbled" /\ L[i].kind # "claim_refused_conflict"
    BY <1>4 DEF OpenTo, AcquireKinds
  <2>2. L[i].claim \in Claims
    BY <2>1, LineFacts
  <2>3. L[i].claim \in DOMAIN D /\ Describes(L, D[L[i].claim], i, Len(L))
    BY <1>2, <1>4, <2>2 DEF Right
  <2> QED BY <2>3, LastLease
<1>5. ASSUME NEW i \in A
      PROVE  /\ L[i].claim \in DOMAIN R
             /\ R[L[i].claim].ws = L[i].ws
             /\ R[L[i].claim].paths = L[i].paths
             /\ R[L[i].claim].base = L[i].base
             /\ R[L[i].claim].state = "claimed" <=> InClaimedState(L, i)
  <2>1. /\ L[i].claim \in DOMAIN D /\ Describes(L, D[L[i].claim], i, Len(L))
        /\ D[L[i].claim].expires > t
    BY <1>3, <1>4
  <2>2. L[i].claim \in DOMAIN R /\ R[L[i].claim] = D[L[i].claim]
    BY <1>1, <2>1
  <2>3. ClaimedTo(L, i, Len(L)) <=> InClaimedState(L, i)
    BY DEF ClaimedTo, InClaimedState
  <2> QED BY <2>1, <2>2, <2>3 DEF Describes
<1>6. ASSUME NEW c \in DOMAIN R PROVE \E i \in A : L[i].claim = c
  <2>1. c \in DOMAIN D /\ D[c].expires > t
    BY <1>1
  <2>2. PICK i \in 1 .. Len(L) : OpenTo(L, ws, i, Len(L)) /\ L[i].claim = c
    BY <1>2, <2>1 DEF Right
  <2> QED BY <1>3, <1>4, <2>1, <2>2
<1>7. DOMAIN R = {L[i].claim : i \in A}
  BY <1>5, <1>6
<1> QED
  BY <1>5, <1>7 DEF R, Projects

-----------------------------------------------------------------------------
(* The ledger the store produces has the shape that the pass relies on: a    *)
(* call takes a fresh claim id, copies the fields of an active claim or      *)
(* refuses, and no other process writes between its decision and its append. *)

Fits(L, r) ==
    /\ r.kind = "claim_refused_conflict" => r.claim = NoClaim
    /\ \A i \in 1 .. Len(L) : L[i].claim = r.claim /\ r.claim # NoClaim => L[i].ws = r.ws

LinesInv ==
    /\ LinesOK(ledger)
    /\ \A i \in 1 .. Len(ledger) : ledger[i].claim \in issued \cup {NoClaim}
    /\ \A p \in Procs : pc[p] = "decided" =>
          op[p].claim \in issued \cup {NoClaim} /\ Fits(ledger, op[p])

LEMMA AppendLinesOK ==
    ASSUME NEW L, LinesOK(L), NEW e \in Entry, Fits(L, e)
    PROVE  LinesOK(Append(L, e))
<1> DEFINE M == Append(L, e)
<1>1. /\ L \in Seq(Entry) /\ Len(L) \in Nat
      /\ M \in Seq(Entry) /\ Len(M) = Len(L) + 1 /\ M[Len(L) + 1] = e
      /\ \A j \in 1 .. Len(L) : M[j] = L[j]
  BY AppendSeq, LenProperties DEF LinesOK
<1> HIDE DEF M
<1>2. \A i \in 1 .. Len(M) : i \in 1 .. Len(L) \/ i = Len(L) + 1
  BY <1>1
<1>3. \A i \in 1 .. Len(M) : M[i].kind = "claim_refused_conflict" => M[i].claim = NoClaim
  BY <1>1, <1>2 DEF LinesOK, Fits
<1>4. \A i, j \in 1 .. Len(M) :
          M[i].claim = M[j].claim /\ M[i].claim # NoClaim => M[i].ws = M[j].ws
  BY <1>1, <1>2 DEF LinesOK, Fits
<1> QED
  BY <1>1, <1>3, <1>4 DEF LinesOK, M

LEMMA GluedLinesOK ==
    ASSUME NEW L, LinesOK(L), L # <<>>
    PROVE  LinesOK(Glued(L))
<1>1. /\ Glued(L) \in Seq(Entry) /\ Len(Glued(L)) = Len(L)
      /\ \A j \in 1 .. Len(L) : j # Len(L) => Glued(L)[j] = L[j]
      /\ Glued(L)[Len(L)] = Garbled
  BY GluedSeq DEF LinesOK
<1>2. Garbled.claim = NoClaim /\ Garbled.kind # "claim_refused_conflict"
  BY DEF Garbled
<1>3. \A i \in 1 .. Len(L) : Glued(L)[i] = L[i] \/ Glued(L)[i] = Garbled
  BY <1>1
<1>4. \A i \in 1 .. Len(L) :
         Glued(L)[i].kind = "claim_refused_conflict" => Glued(L)[i].claim = NoClaim
  BY <1>2, <1>3 DEF LinesOK
<1>5. \A i, j \in 1 .. Len(L) :
         Glued(L)[i].claim = Glued(L)[j].claim /\ Glued(L)[i].claim # NoClaim
         => Glued(L)[i].ws = Glued(L)[j].ws
  BY <1>2, <1>3 DEF LinesOK
<1> QED
  BY <1>1, <1>4, <1>5 DEF LinesOK

LEMMA InitLines == Init => LinesInv
BY FleetAssumptions DEF Init, LinesInv, LinesOK

LEMMA NextLines ==
    ASSUME TypeInv, LinesInv, [Next]_vars
    PROVE  LinesInv'
<1>1. ledger \in Seq(Entry) /\ Len(ledger) \in Nat /\ LinesOK(ledger)
  BY LenProperties DEF LinesInv, LinesOK
<1>2. CASE UNCHANGED vars
  BY <1>2 DEF vars, LinesInv
<1>3. CASE Tick
  BY <1>3 DEF Tick, LinesInv
<1>4. ASSUME NEW p \in Procs, Begin(p) PROVE LinesInv'
  <2>1. PICK r : Decided(p, r)
    BY <1>4, BeginDecides DEF TypeInv
  <2>2. /\ UNCHANGED ledger /\ issued \subseteq issued'
        /\ pc' = [pc EXCEPT ![p] = "decided"] /\ op' = [op EXCEPT ![p] = r]
    BY <2>1 DEF Decided, Decide
  <2>3. r.claim \in issued' \cup {NoClaim} /\ Fits(ledger, r)
    <3>1. CASE r.claim \notin issued /\ r.claim \in issued' \cup {NoClaim}
      BY <2>1, <3>1 DEF Decided, Fits, LinesInv
    <3>2. ASSUME NEW i \in 1 .. Len(ledger),
                 ledger[i].claim = r.claim, ledger[i].ws = r.ws
          PROVE  r.claim \in issued' \cup {NoClaim} /\ Fits(ledger, r)
      BY <1>1, <2>1, <2>2, <3>2 DEF Decided, Fits, LinesInv, LinesOK
    <3> QED BY <2>1, <3>1, <3>2 DEF Decided
  <2>4. \A q \in Procs : pc'[q] = "decided" =>
           op'[q].claim \in issued' \cup {NoClaim} /\ Fits(ledger, op'[q])
    BY <2>2, <2>3 DEF LinesInv, TypeInv, TypeOK
  <2>5. \A i \in 1 .. Len(ledger) : ledger[i].claim \in issued' \cup {NoClaim}
    BY <2>2 DEF LinesInv
  <2> QED BY <1>1, <2>2, <2>4, <2>5 DEF LinesInv
<1>5. ASSUME NEW p \in Procs, pc[p] = "decided", UNCHANGED issued,
             pc' = [pc EXCEPT ![p] = "idle"] \/ pc' = [pc EXCEPT ![p] = "appended"],
             \/ \E e \in Lines(p) : ledger' = Written(e)
             \/ ledger' = Append(ledger, Garbled)
      PROVE  LinesInv'
  <2>1. \A q \in Procs : pc'[q] # "decided"
    BY <1>5 DEF TypeInv, TypeOK
  <2>2. \A e \in Lines(p) :
           /\ e \in Entry /\ e.claim = op[p].claim
           /\ e.ws = op[p].ws /\ e.kind = op[p].kind
    BY <1>5, StampedEvent
  <2>3. \A e \in Lines(p) : Fits(ledger, e) /\ e.claim \in issued \cup {NoClaim}
    BY <1>5, <2>2 DEF LinesInv, Fits
  <2>4. /\ Garbled \in Entry /\ Fits(ledger, Garbled)
        /\ Garbled.claim = NoClaim
    BY GarbledEntry DEF Garbled, Fits
  <2>5. \A x \in Lines(p) \cup {Garbled} :
           /\ LinesOK(Append(ledger, x))
           /\ \A i \in 1 .. Len(Append(ledger, x)) :
                 Append(ledger, x)[i].claim \in issued \cup {NoClaim}
    <3> SUFFICES ASSUME NEW x \in Lines(p) \cup {Garbled}
                 PROVE  /\ LinesOK(Append(ledger, x))
                        /\ \A i \in 1 .. Len(Append(ledger, x)) :
                              Append(ledger, x)[i].claim \in issued \cup {NoClaim}
      OBVIOUS
    <3>1. x \in Entry /\ Fits(ledger, x) /\ x.claim \in issued \cup {NoClaim}
      BY <2>2, <2>3, <2>4
    <3>2. \A i \in 1 .. Len(Append(ledger, x)) :
             Append(ledger, x)[i] = x \/ \E j \in 1 .. Len(ledger) : Append(ledger, x)[i] = ledger[j]
      BY <1>1, <3>1, AppendSeq
    <3> QED BY <1>1, <3>1, <3>2, AppendLinesOK DEF LinesInv
  <2>6. CASE \E x \in Lines(p) \cup {Garbled} : ledger' = Append(ledger, x)
    BY <1>5, <2>1, <2>5, <2>6 DEF LinesInv
  <2>7. CASE ledger' = Glued(ledger) /\ tail # "clean"
    <3>1. ledger # <<>>
      BY <2>7 DEF TypeInv, TypeOK
    <3>2. \A i \in 1 .. Len(Glued(ledger)) :
             i \in 1 .. Len(ledger) /\ Glued(ledger)[i] \in {ledger[i], Garbled}
      BY <1>1, <3>1, GluedSeq
    <3>3. \A i \in 1 .. Len(Glued(ledger)) : Glued(ledger)[i].claim \in issued \cup {NoClaim}
      BY <2>4, <3>2 DEF LinesInv
    <3> QED BY <1>1, <1>5, <2>1, <2>7, <3>1, <3>3, GluedLinesOK DEF LinesInv
  <2> QED BY <1>5, <2>6, <2>7 DEF Written
<1>6. ASSUME NEW p \in Procs, AppendEvent(p) PROVE LinesInv'
  <2>1. \E e \in Lines(p) : ledger' = Written(e)
    BY <1>6 DEF AppendEvent, Lines
  <2> QED BY <1>5, <1>6, <2>1 DEF AppendEvent
<1>7. ASSUME NEW p \in Procs, NEW fault \in TornAppends, AppendTorn(p, fault)
      PROVE  LinesInv'
  BY <1>5, <1>7, TornWrites DEF AppendTorn, Leave
<1>8. ASSUME NEW p \in Procs,
             AbortBeforeAppend(p) \/ Finish(p) \/ CrashAfterAppend(p)
      PROVE  LinesInv'
  <2>1. /\ UNCHANGED <<ledger, issued>> /\ pc[p] # "idle"
        /\ pc' = [pc EXCEPT ![p] = "idle"]
    BY <1>8 DEF AbortBeforeAppend, Finish, CrashAfterAppend, Leave
  <2>2. \A q \in Procs : pc'[q] # "decided"
    BY <2>1 DEF TypeInv, TypeOK
  <2> QED BY <2>1, <2>2 DEF LinesInv
<1>9. ASSUME NEW p \in Procs, FlockFails(p) PROVE LinesInv'
  BY <1>9 DEF FlockFails, LinesInv
<1> QED
  BY <1>2, <1>3, <1>4, <1>6, <1>7, <1>8, <1>9 DEF Next, Proceed

(* A prefix of such a ledger is one. *)
LEMMA PrefixLinesOK ==
    ASSUME NEW L, LinesOK(L), NEW n \in 0 .. Len(L)
    PROVE  LinesOK(SubSeq(L, 1, n))
<1> DEFINE M == SubSeq(L, 1, n)
<1>1. L \in Seq(Entry) /\ Len(L) \in Nat
  BY LenProperties DEF LinesOK
<1>2. M \in Seq(Entry) /\ Len(M) = n /\ \A i \in 1 .. n : M[i] = L[i]
  BY <1>1, SubSeqProperties
<1> HIDE DEF M
<1>3. \A i \in 1 .. Len(M) : i \in 1 .. Len(L) /\ M[i] = L[i]
  BY <1>1, <1>2
<1>4. LinesOK(M)
  BY <1>2, <1>3 DEF LinesOK
<1> QED
  BY <1>4 DEF M

LEMMA LinesMatch == TypeInv /\ LinesInv => ReplayMatches
<1> SUFFICES ASSUME TypeInv, LinesInv, NEW n \in 0 .. Len(ledger),
                    NEW ws \in Authorities \cup {"any"}
             PROVE  LET L        == SubSeq(ledger, 1, n)
                        replayed == ReplayActiveClaims(L, ws, clock)
                        active   == IF ws = "any" THEN Active(L, clock)
                                                  ELSE ActiveIn(L, clock, ws)
                    IN  /\ DOMAIN replayed = {L[i].claim : i \in active}
                        /\ \A i \in active :
                              LET claim == replayed[L[i].claim]
                              IN  /\ claim.ws = L[i].ws
                                  /\ claim.paths = L[i].paths
                                  /\ claim.base = L[i].base
                                  /\ claim.state = "claimed" <=> InClaimedState(L, i)
  BY DEF ReplayMatches
<1> DEFINE L == SubSeq(ledger, 1, n)
           A == IF ws = "any" THEN Active(L, clock) ELSE ActiveIn(L, clock, ws)
           R == ReplayActiveClaims(L, ws, clock)
<1>1. LinesOK(L) /\ clock \in Nat
  BY PrefixLinesOK DEF LinesInv, TypeInv, TypeOK
<1>2. Projects(R, L, A)
  <2> HIDE DEF L
  <2> QED BY <1>1, ReplayIsProjection
<1>3. /\ DOMAIN R = {L[i].claim : i \in A}
      /\ \A i \in A : /\ R[L[i].claim].ws = L[i].ws
                      /\ R[L[i].claim].paths = L[i].paths
                      /\ R[L[i].claim].base = L[i].base
                      /\ R[L[i].claim].state = "claimed" <=> InClaimedState(L, i)
  <2> HIDE DEF L, A, R
  <2> QED BY <1>2 DEF Projects
<1> QED
  BY <1>3

(* _replay_active_claims computes, in one pass over the lines, exactly the   *)
(* claims that are acquired, not ended since and not expired, each with the  *)
(* authority, paths, base and state of its last events, for every filter and *)
(* on every ledger that calls, failures, crashes and torn appends leave, and *)
(* on the part of it that was read when reading it fails.                    *)
THEOREM ReplayComputesProjection == Spec => []ReplayMatches
<1>1. TypeInv /\ LinesInv /\ [Next]_vars => LinesInv'
  BY NextLines
<1> QED
  BY <1>1, InitType, NextType, InitLines, LinesMatch, PTL DEF Spec

=============================================================================
