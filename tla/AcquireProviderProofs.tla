------------------------ MODULE AcquireProviderProofs ------------------------
(***************************************************************************)
(* Theorems of the providers of a rig: of AcquireProvider for any plan,    *)
(* calls, settings, failures and stops of the origin, and of AlpacaCamera  *)
(* and AlpacaPreflight for any requests, scenarios, devices and bounds.    *)
(*                                                                         *)
(* The inductive invariant of an attempt is in three parts: what was sent  *)
(* and done, and what rows and calls know of it (LedgerInv, of every       *)
(* setting), that an image is read once (ReadOK, unless two calls of the   *)
(* configured provider meet), and that it is the image it should be        *)
(* (OwnOK, of a lone call).                                                *)
(***************************************************************************)
EXTENDS RigProviders, FiniteSetTheorems, TLAPS

Early == {"none", "claimed"}
Late == {"retrieving", "retained", "completed"}
PointCodes == {"observe", "write", "poll"}
ImageCodes == {"expose", "started", "watch", "seen", "await", "read",
               "retain", "solve", "solving"}
ShotCodes == {"watch", "seen", "await", "read"}
KeptCodes == {"retain", "solve", "solving"}

CallRecords == [work : 0 .. Len(Plan), pc : Codes, new : BOOLEAN]
CameraRecords == [active : BOOLEAN, of : Nat, at : Nat]
FrameRecords == [of : Nat, at : Nat]

Work(k) == calls[k].work
Busy(k) == calls[k].pc # "idle"
Doing(k, codes) == calls[k].pc \in codes
Sent(kind, w) == wire[kind][w] + taken[kind][w]

-----------------------------------------------------------------------------
(* The ledger: what was sent and done, and what rows and calls know of it.  *)

SessionTyped ==
  /\ setting \in Settings /\ faults \in Nat
  /\ current \in 1 .. Len(Plan) + 1
  /\ results \in [Works -> {"none", "Solved", "NoSolution"}]
RowsTyped ==
  pointing \in [Works -> Pointings] /\ exposure \in [Works -> Exposures]
CallsTyped == calls \in [Calls -> CallRecords]
RigTyped ==
  /\ wire \in [{"point", "expose"} -> [Works -> Nat]]
  /\ taken \in [{"point", "expose"} -> [Works -> Nat]]
  /\ mount \in [at : 0 .. Len(Plan), slewing : BOOLEAN]
  /\ camera \in CameraRecords
FramesTyped ==
  originals \in [Works -> FrameRecords] /\ reads \in [Works -> Nat]

Typed == SessionTyped /\ RowsTyped /\ CallsTyped /\ RigTyped /\ FramesTyped

\* A call does what its work asks for; the one that inserted the row of a
\* movement has not sent it while it observes.
CallOK(k) ==
  /\ Busy(k) => Work(k) \in Works /\ k \in setting.calls
  /\ ~Busy(k) => ~calls[k].new
  /\ Doing(k, {"aim"}) => Plan[Work(k)] = "correct"
  /\ Doing(k, PointCodes) => Moves(Work(k)) /\ pointing[Work(k)] # "none"
  /\ calls[k].new => pointing[Work(k)] # "none"
  /\ calls[k].new /\ Doing(k, {"observe"}) => Sent("point", Work(k)) = 0
  /\ Doing(k, ImageCodes) => Images(Work(k))
  /\ Doing(k, ShotCodes) => camera.of # 0
  /\ Doing(k, KeptCodes) => camera.of # 0 /\ originals[Work(k)] # None

\* What the rows of a work say was done was done, and done once.
RowOK(w) ==
  /\ Sent("point", w) <= 1 /\ Sent("expose", w) <= 1
  /\ pointing[w] = "none" => Sent("point", w) = 0
  /\ exposure[w] = "none" => Sent("expose", w) = 0
  /\ ~Moves(w) => pointing[w] = "none"
  /\ ~Images(w) => exposure[w] = "none"
  /\ pointing[w] \in {"acknowledged", "completed"} => taken["point"][w] > 0
  /\ taken["expose"][w] > 0 => camera.of # 0
  /\ exposure[w] \notin Early => camera.of # 0
  /\ exposure[w] \in {"retained", "completed"} => originals[w] # None
  /\ results[w] # "none" => originals[w] # None

RigOK ==
  /\ mount.at \in Works => taken["point"][mount.at] > 0
  /\ camera.active => camera.of # 0

\* A row is inserted by one call.
Inserted ==
  \A k, l \in Calls :
    calls[k].new /\ calls[l].new /\ Work(k) = Work(l) => k = l

Evidence ==
  /\ RigOK /\ Inserted
  /\ \A k \in Calls : CallOK(k)
  /\ \A w \in Works : RowOK(w)

LedgerInv == Typed /\ Evidence /\ ProgressIsReal

-----------------------------------------------------------------------------
(* The image is read once, unless two calls of the configured provider meet. *)

Exclusive == OneCall \/ ~Configured

CallLeads(k) ==
  /\ Doing(k, {"started"}) => exposure[Work(k)] = "claimed"
  /\ Doing(k, {"watch", "seen"}) =>
       Configured /\ exposure[Work(k)] = "acknowledged"
  /\ Doing(k, {"await"}) => exposure[Work(k)] \notin Early
  /\ Doing(k, {"read"} \cup KeptCodes) => exposure[Work(k)] \in Late
  /\ Doing(k, {"read"}) => reads[Work(k)] = 0

ReadRow(w) == reads[w] <= 1 /\ (exposure[w] \notin Late => reads[w] = 0)

\* One call starts an exposure, and one reads it.
Apart ==
  \A k, l \in Calls :
    /\ Work(k) = Work(l) /\ calls[k].pc = calls[l].pc
    /\ Doing(k, {"started", "read"})
    => k = l

ReadInv ==
  Exclusive =>
    /\ Apart
    /\ \A k \in Calls : CallLeads(k)
    /\ \A w \in Works : ReadRow(w)

-----------------------------------------------------------------------------
(* With one call and the rig for itself the image is the attempt's.         *)

\* The mount stands where the last movement sent it.
MountStands ==
  current \in Works /\ (Moves(current) => pointing[current] = "completed") =>
    mount.at = Pointing(current) /\ ~mount.slewing

\* The camera has what the current work exposed, or nothing under way.
CameraHolds ==
  /\ camera.active => current \in Works /\ taken["expose"][current] > 0
  /\ current \in Works /\ taken["expose"][current] > 0 =>
       camera.of = current /\ camera.at = Pointing(current)
  /\ current \in Works /\ exposure[current] \in Late => ~camera.active

CallOwn(k) ==
  /\ Busy(k) => Work(k) = current
  /\ Doing(k, {"write"}) => pointing[current] = "claimed"
  /\ Doing(k, ImageCodes) /\ Moves(current) => pointing[current] = "completed"
  /\ Doing(k, ShotCodes) => taken["expose"][current] > 0

RowOwn(w) ==
  /\ w > current => pointing[w] = "none" /\ exposure[w] = "none"
  /\ w # current => wire["point"][w] = 0 /\ wire["expose"][w] = 0
  /\ exposure[w] # "none" /\ Moves(w) => pointing[w] = "completed"
  /\ exposure[w] \notin Early => taken["expose"][w] > 0
  /\ results[w] # "none" => w < current
  /\ originals[w].of \in {None.of, w}
  /\ originals[w].of = w => originals[w].at = Pointing(w)

OwnInv ==
  Lone =>
    /\ MountStands /\ CameraHolds
    /\ \A k \in Calls : CallOwn(k)
    /\ \A w \in Works : RowOwn(w)

Inv == LedgerInv /\ ReadInv /\ OwnInv

-----------------------------------------------------------------------------
(* Constants, settings and calls.                                           *)

LEMMA PlanFacts ==
  /\ Len(Plan) \in Nat /\ Len(Plan) >= 1
  /\ Works = 1 .. Len(Plan)
  /\ \A w \in Works : Plan[w] \in {"initial", "correct", "image"}
  /\ Plan[1] = "initial"
BY PlanAssumption DEF Works

LEMMA SettingFacts ==
  ASSUME setting \in Settings
  PROVE  setting.calls \subseteq Calls /\ Configured \in BOOLEAN
BY PlanAssumption DEF Configured

LEMMA CallFacts ==
  ASSUME Typed, NEW k \in Calls
  PROVE  /\ calls[k] \in CallRecords
         /\ Work(k) \in 0 .. Len(Plan)
         /\ calls[k].pc \in Codes /\ calls[k].new \in BOOLEAN
BY DEF Typed, CallsTyped, CallRecords, Work

\* Call k is now at pc of work w; the others are where they were.
Becomes(k, w, pc, new) ==
  /\ calls' \in [Calls -> CallRecords]
  /\ calls'[k].work = w /\ calls'[k].pc = pc /\ calls'[k].new = new
  /\ \A j \in Calls \ {k} : calls'[j] = calls[j]

LEMMA ReplaceCall ==
  ASSUME Typed, NEW k \in Calls, NEW w \in 0 .. Len(Plan), NEW pc \in Codes,
         NEW new \in BOOLEAN,
         calls' = [calls EXCEPT ![k] = [work |-> w, pc |-> pc, new |-> new]]
  PROVE  Becomes(k, w, pc, new)
BY DEF Typed, CallsTyped, CallRecords, Becomes

LEMMA GotoCall ==
  ASSUME Typed, NEW k \in Calls, NEW pc \in Codes, Goto(k, pc)
  PROVE  Becomes(k, Work(k), pc, calls[k].new)
<1> DEFINE r == [calls[k] EXCEPT !.pc = pc]
<1>1. calls' = [calls EXCEPT ![k] = r]
  BY DEF Goto
<1>2. calls[k] \in CallRecords
  BY CallFacts
<1>3. r \in CallRecords /\ r.work = Work(k) /\ r.pc = pc
      /\ r.new = calls[k].new
  BY <1>2 DEF CallRecords, Work
<1>4. calls \in [Calls -> CallRecords]
  BY DEF Typed, CallsTyped
<1> HIDE DEF r
<1> QED BY <1>1, <1>3, <1>4 DEF Becomes

LEMMA EndCall ==
  ASSUME Typed, NEW k \in Calls, End(k)
  PROVE  Becomes(k, 0, "idle", FALSE)
<1>1. calls' = [calls EXCEPT ![k] = [work |-> 0, pc |-> "idle", new |-> FALSE]]
  BY DEF End, Idle
<1>2. "idle" \in Codes /\ 0 \in 0 .. Len(Plan)
  BY PlanFacts DEF Codes
<1> QED BY <1>1, <1>2, ReplaceCall

LEMMA EnterCall ==
  ASSUME Typed, NEW k \in Calls, NEW w \in Works, NEW pc \in Codes,
         Enter(k, w, pc)
  PROVE  Becomes(k, w, pc, FALSE)
<1>1. w \in 0 .. Len(Plan) /\ FALSE \in BOOLEAN
  BY PlanFacts
<1>2. calls' = [calls EXCEPT ![k] = [work |-> w, pc |-> pc, new |-> FALSE]]
  BY DEF Enter
<1> QED BY <1>1, <1>2, ReplaceCall

LEMMA ClaimCall ==
  ASSUME Typed, NEW k \in Calls, NEW w \in Works, NEW pc \in Codes,
         Claim(k, w, pc)
  PROVE  /\ Becomes(k, w, pc, pointing[w] = "none")
         /\ pointing' \in [Works -> Pointings]
         /\ pointing'[w] = IF pointing[w] = "none" THEN "claimed"
                                                   ELSE pointing[w]
         /\ \A v \in Works \ {w} : pointing'[v] = pointing[v]
<1> DEFINE new == pointing[w] = "none"
<1>0. w \in 0 .. Len(Plan) /\ new \in BOOLEAN
  BY PlanFacts
<1>3. calls' = [calls EXCEPT ![k] = [work |-> w, pc |-> pc, new |-> new]]
  BY DEF Claim
<1>1. Becomes(k, w, pc, new)
  <2> HIDE DEF new
  <2> QED BY <1>0, <1>3, ReplaceCall
<1>2. pointing \in [Works -> Pointings] /\ "claimed" \in Pointings
  BY DEF Typed, RowsTyped, Pointings
<1> QED BY <1>1, <1>2 DEF Claim

-----------------------------------------------------------------------------
(* A call that goes on without a change of the rows, the rig or the frames. *)

Others == <<setting, current, pointing, exposure, wire, taken, mount, camera,
            reads, originals, results>>

LEMMA CallsOnly ==
  ASSUME Inv, NEW k \in Calls, NEW w, NEW pc, NEW new,
         Becomes(k, w, pc, new), UNCHANGED Others, faults' \in Nat,
         pc \notin {"started", "read"},
         new => calls[k].new /\ w = Work(k),
         CallOK(k)',
         Exclusive => CallLeads(k)',
         Lone => CallOwn(k)'
  PROVE  Inv'
<1> USE DEF Others
<1>1. Typed'
  BY DEF Inv, LedgerInv, Typed, SessionTyped, RowsTyped, CallsTyped, RigTyped,
         FramesTyped, Becomes
<1>2. RigOK' /\ ProgressIsReal'
  BY DEF Inv, LedgerInv, Evidence, RigOK, ProgressIsReal
<1>3. \A w_1 \in Works : RowOK(w_1)'
  BY DEF Inv, LedgerInv, Evidence, RowOK, Sent
<1>4. ASSUME NEW j \in Calls PROVE CallOK(j)'
  <2>1. CASE j = k
    BY <2>1
  <2>2. CASE j # k
    <3>1. calls'[j] = calls[j]
      BY <2>2 DEF Becomes
    <3>2. CallOK(j)
      BY DEF Inv, LedgerInv, Evidence
    <3> QED BY <3>1, <3>2 DEF CallOK, Work, Busy, Doing, Sent
  <2> QED BY <2>1, <2>2
<1>5. Inserted'
  BY DEF Inv, LedgerInv, Evidence, Inserted, Becomes, Work
<1>6. ReadInv'
  <2> SUFFICES ASSUME Exclusive' PROVE (Apart /\ (\A j \in Calls : CallLeads(j))
                                  /\ \A v \in Works : ReadRow(v))'
    BY DEF ReadInv
  <2>0. Exclusive
    BY DEF Exclusive, OneCall, Configured
  <2>1. Apart'
    BY <2>0 DEF Inv, ReadInv, Apart, Becomes, Work, Doing
  <2>2. ASSUME NEW j \in Calls PROVE CallLeads(j)'
    <3>1. CASE j = k
      BY <3>1, <2>0
    <3>2. CASE j # k
      <4>1. calls'[j] = calls[j]
        BY <3>2 DEF Becomes
      <4>2. CallLeads(j)
        BY <2>0 DEF Inv, ReadInv
      <4> QED BY <4>1, <4>2 DEF CallLeads, Work, Doing, Configured
    <3> QED BY <3>1, <3>2
  <2>3. ASSUME NEW v \in Works PROVE ReadRow(v)'
    BY <2>0 DEF Inv, ReadInv, ReadRow
  <2> QED BY <2>1, <2>2, <2>3
<1>7. OwnInv'
  <2> SUFFICES ASSUME Lone' PROVE (MountStands /\ CameraHolds
                                  /\ (\A j \in Calls : CallOwn(j))
                                  /\ \A v \in Works : RowOwn(v))'
    BY DEF OwnInv
  <2>0. Lone
    BY DEF Lone, OneCall, Configured, Direct
  <2>1. MountStands' /\ CameraHolds'
    BY <2>0 DEF Inv, OwnInv, MountStands, CameraHolds
  <2>2. ASSUME NEW j \in Calls PROVE CallOwn(j)'
    <3>1. CASE j = k
      BY <3>1, <2>0
    <3>2. CASE j # k
      <4>1. calls'[j] = calls[j]
        BY <3>2 DEF Becomes
      <4>2. CallOwn(j)
        BY <2>0 DEF Inv, OwnInv
      <4> QED BY <4>1, <4>2 DEF CallOwn, Work, Busy, Doing
    <3> QED BY <3>1, <3>2
  <2>3. ASSUME NEW v \in Works PROVE RowOwn(v)'
    BY <2>0 DEF Inv, OwnInv, RowOwn
  <2> QED BY <2>1, <2>2, <2>3
<1> QED BY <1>1, <1>2, <1>3, <1>4, <1>5, <1>6, <1>7 DEF Inv, LedgerInv, Evidence

LEMMA LoneCall ==
  ASSUME Inv, OneCall, NEW k \in setting.calls, NEW j \in Calls, j # k
  PROVE  ~Busy(j)
BY DEF Inv, LedgerInv, Evidence, CallOK, OneCall

LEMMA LoneKeeps ==
  ASSUME setting' = setting
  PROVE  /\ Exclusive' <=> Exclusive
         /\ Lone' <=> Lone
         /\ OneCall' <=> OneCall
         /\ Configured' <=> Configured
BY DEF Exclusive, Lone, OneCall, Configured, Direct

-----------------------------------------------------------------------------
(* A call that moves on while the row of its movement does.                 *)

\* The row of movement w is in state s, the other rows are as they were.
PointingTo(w, s) ==
  /\ pointing' \in [Works -> Pointings] /\ pointing'[w] = s
  /\ \A v \in Works \ {w} : pointing'[v] = pointing[v]

LEMMA PointingEvidence ==
  ASSUME Inv, NEW k \in Calls, NEW w \in Works, NEW s, NEW x, NEW pc, NEW new,
         Becomes(k, x, pc, new), PointingTo(w, s),
         UNCHANGED <<setting, exposure, wire, taken, mount, camera, reads,
                     originals, results>>,
         Moves(w), s # "none",
         s \in {"acknowledged", "completed"} => taken["point"][w] > 0,
         pc \notin {"started", "read"},
         new => x = w /\ (pointing[w] = "none" \/ (calls[k].new /\ w = Work(k))),
         CallOK(k)',
         Exclusive => CallLeads(k)'
  PROVE  Evidence' /\ ReadInv'
<1>1. RigOK'
  BY DEF Inv, LedgerInv, Evidence, RigOK
<1>3. ASSUME NEW v \in Works PROVE RowOK(v)'
  <2>1. RowOK(v)
    BY DEF Inv, LedgerInv, Evidence
  <2>2. CASE v = w
    BY <2>1, <2>2 DEF RowOK, Sent, PointingTo, Moves, Images
  <2>3. CASE v # w
    <3>1. pointing'[v] = pointing[v]
      BY <2>3 DEF PointingTo
    <3> QED BY <2>1, <3>1 DEF RowOK, Sent
  <2> QED BY <2>2, <2>3
<1>4. ASSUME NEW j \in Calls PROVE CallOK(j)'
  <2>1. CASE j = k
    BY <2>1
  <2>2. CASE j # k
    <3>1. calls'[j] = calls[j]
      BY <2>2 DEF Becomes
    <3>2. CallOK(j)
      BY DEF Inv, LedgerInv, Evidence
    <3>3. \A v \in Works : pointing[v] # "none" => pointing'[v] # "none"
      BY DEF PointingTo
    <3>4. Busy(j) => Work(j) \in Works
      BY <3>2 DEF CallOK
    <3>5. ~Busy(j) => ~calls[j].new /\ ~Doing(j, PointCodes)
      BY <3>2 DEF CallOK, Busy, Doing, PointCodes
    <3> QED BY <3>1, <3>2, <3>3, <3>4, <3>5 DEF CallOK, Work, Busy, Doing, Sent
  <2> QED BY <2>1, <2>2
<1>5. Inserted'
  <2> SUFFICES ASSUME NEW i \in Calls, NEW j \in Calls,
                      (calls[i].new /\ calls[j].new /\ Work(i) = Work(j))'
               PROVE  i = j
    BY DEF Inserted
  <2>1. \A j_1 \in Calls : calls[j_1].new => pointing[Work(j_1)] # "none"
    BY DEF Inv, LedgerInv, Evidence, CallOK
  <2>2. Inserted
    BY DEF Inv, LedgerInv, Evidence
  <2>3. CASE i = k /\ j # k
    BY <2>1, <2>2, <2>3 DEF Becomes, Work, Inserted
  <2>4. CASE i # k /\ j = k
    BY <2>1, <2>2, <2>4 DEF Becomes, Work, Inserted
  <2>5. CASE i # k /\ j # k
    BY <2>2, <2>5 DEF Becomes, Work, Inserted
  <2> QED BY <2>3, <2>4, <2>5
<1>6. ReadInv'
  <2> SUFFICES ASSUME Exclusive' PROVE (Apart /\ (\A j \in Calls : CallLeads(j))
                                  /\ \A v \in Works : ReadRow(v))'
    BY DEF ReadInv
  <2>0. Exclusive
    BY LoneKeeps
  <2>1. Apart'
    BY <2>0 DEF Inv, ReadInv, Apart, Becomes, Work, Doing
  <2>2. ASSUME NEW j \in Calls PROVE CallLeads(j)'
    <3>1. CASE j = k
      BY <3>1, <2>0
    <3>2. CASE j # k
      <4>1. calls'[j] = calls[j]
        BY <3>2 DEF Becomes
      <4>2. CallLeads(j)
        BY <2>0 DEF Inv, ReadInv
      <4> QED BY <4>1, <4>2 DEF CallLeads, Work, Doing, Configured
    <3> QED BY <3>1, <3>2
  <2>3. ASSUME NEW v \in Works PROVE ReadRow(v)'
    BY <2>0 DEF Inv, ReadInv, ReadRow
  <2> QED BY <2>1, <2>2, <2>3
<1> QED BY <1>1, <1>3, <1>4, <1>5, <1>6 DEF Evidence

-----------------------------------------------------------------------------
(* A call that moves on while the row of its exposure does.                 *)

\* The row of exposure w is in state s, the other rows are as they were.
ExposureTo(w, s) ==
  /\ exposure' \in [Works -> Exposures] /\ exposure'[w] = s
  /\ \A v \in Works \ {w} : exposure'[v] = exposure[v]

\* Nothing was sent, or the exposure of w, of which there was no row.
SentFor(w) ==
  /\ wire' \in [{"point", "expose"} -> [Works -> Nat]]
  /\ wire'["point"] = wire["point"]
  /\ \A v \in Works \ {w} : wire'["expose"][v] = wire["expose"][v]
  /\ \/ wire'["expose"][w] = wire["expose"][w]
     \/ exposure[w] = "none" /\ wire'["expose"][w] = wire["expose"][w] + 1

\* What another call of the development provider may find changed.
DevelopmentMove(k, w, s) ==
  \/ s = exposure[w]
  \/ exposure[w] = "none" /\ s = "claimed"
  \/ exposure[w] = "acknowledged" /\ s = "retrieving"
  \/ exposure[w] = "claimed" /\ s = "acknowledged" /\ Doing(k, {"started"})

LEMMA ExposureEvidence ==
  ASSUME Inv, NEW k \in setting.calls, NEW s, NEW pc,
         Doing(k, ImageCodes),
         Becomes(k, Work(k), pc, calls[k].new), ExposureTo(Work(k), s),
         SentFor(Work(k)),
         UNCHANGED <<setting, pointing, taken, mount, camera, reads,
                     originals, results>>,
         s # "none", s \notin Early => camera.of # 0,
         s \in {"retained", "completed"} => originals[Work(k)] # None,
         exposure[Work(k)] \notin Early => s \notin Early,
         Exclusive /\ exposure[Work(k)] \in Late => s \in Late,
         ~Configured => DevelopmentMove(k, Work(k), s),
         pc = "started" => exposure[Work(k)] = "none",
         pc = "read" => exposure[Work(k)] \notin Late,
         pc \in ImageCodes,
         CallOK(k)',
         Exclusive => CallLeads(k)'
  PROVE  Evidence' /\ ReadInv'
<1> DEFINE w == Work(k)
<1>k. k \in Calls
  BY SettingFacts DEF Inv, LedgerInv, Typed, SessionTyped
<1>w. w \in Works /\ Images(w)
  BY <1>k DEF Inv, LedgerInv, Evidence, CallOK, Busy, Doing, ImageCodes
<1>1. RigOK'
  BY DEF Inv, LedgerInv, Evidence, RigOK
<1>3. ASSUME NEW v \in Works PROVE RowOK(v)'
  <2>1. RowOK(v)
    BY DEF Inv, LedgerInv, Evidence
  <2>2. CASE v = w
    <3>1. exposure[w] = "none" => wire["expose"][w] + taken["expose"][w] = 0
      BY <2>1, <2>2 DEF RowOK, Sent
    <3>2. /\ wire["expose"][w] \in Nat /\ taken["expose"][w] \in Nat
          /\ wire'["expose"][w] \in Nat
      BY <1>w DEF Inv, LedgerInv, Typed, RigTyped, SentFor
    <3> HIDE DEF w
    <3> QED BY <2>1, <2>2, <3>1, <3>2, <1>w
            DEF RowOK, Sent, ExposureTo, SentFor, Early, Moves, Images
  <2>3. CASE v # w
    <3>1. exposure'[v] = exposure[v]
      BY <2>3 DEF ExposureTo
    <3>2. wire'["expose"][v] = wire["expose"][v] /\ wire'["point"] = wire["point"]
      BY <2>3 DEF SentFor
    <3> QED BY <2>1, <3>1, <3>2 DEF RowOK, Sent
  <2> QED BY <2>2, <2>3
<1>4. ASSUME NEW j \in Calls PROVE CallOK(j)'
  <2>1. CASE j = k
    BY <2>1
  <2>2. CASE j # k
    <3>1. calls'[j] = calls[j]
      BY <2>2 DEF Becomes
    <3>2. CallOK(j)
      BY DEF Inv, LedgerInv, Evidence
    <3>3. wire'["point"] = wire["point"]
      BY DEF SentFor
    <3> QED BY <3>1, <3>2, <3>3 DEF CallOK, Work, Busy, Doing, Sent
  <2> QED BY <2>1, <2>2
<1>5. Inserted'
  BY <1>k DEF Inv, LedgerInv, Evidence, Inserted, Becomes, Work
<1>6. ReadInv'
  <2> SUFFICES ASSUME Exclusive' PROVE (Apart /\ (\A j \in Calls : CallLeads(j))
                                  /\ \A v \in Works : ReadRow(v))'
    BY DEF ReadInv
  <2>0. Exclusive
    BY LoneKeeps
  <2>l. \A j \in Calls : CallLeads(j)
    BY <2>0 DEF Inv, ReadInv
  <2>1. Apart'
    <3>1. Apart
      BY <2>0 DEF Inv, ReadInv
    <3>2. ASSUME NEW j \in Calls, j # k,
                 calls[j].pc = pc, pc \in {"started", "read"}
          PROVE  Work(j) # w
      <4>1. CallLeads(j)
        BY <2>l
      <4>2. CASE pc = "started"
        BY <4>1, <4>2, <3>2 DEF CallLeads, Doing
      <4>3. CASE pc = "read"
        <5>1. Doing(j, {"read"} \cup KeptCodes)
          BY <4>3, <3>2 DEF Doing
        <5>2. exposure[Work(j)] \in Late
          BY <4>1, <5>1 DEF CallLeads
        <5> QED BY <4>3, <5>2
      <4> QED BY <4>2, <4>3, <3>2
    <3>3. \A j \in Calls \ {k} : calls'[j] = calls[j]
      BY DEF Becomes
    <3>4. calls'[k].pc = pc /\ calls'[k].work = w
      BY DEF Becomes
    <3> HIDE DEF w
    <3> QED BY <3>1, <3>2, <3>3, <3>4 DEF Apart, Work, Doing
  <2>2. ASSUME NEW j \in Calls PROVE CallLeads(j)'
    <3>1. CASE j = k
      BY <3>1, <2>0
    <3>2. CASE j # k
      <4>1. calls'[j] = calls[j]
        BY <3>2 DEF Becomes
      <4>2. CallLeads(j)
        BY <2>l
      <4>3. CASE OneCall
        <5>1. calls[j].pc = "idle"
          BY <4>3, <3>2, LoneCall DEF Busy
        <5> QED BY <4>1, <5>1 DEF CallLeads, Doing, KeptCodes
      <4>4. CASE ~Configured
        <5>1. CASE Work(j) # w
          <6>1. Busy(j) => exposure'[Work(j)] = exposure[Work(j)]
            BY <5>1, <1>4 DEF ExposureTo, Inv, LedgerInv, Evidence, CallOK
          <6> QED BY <4>1, <4>2, <6>1
                  DEF CallLeads, Work, Doing, Busy, KeptCodes, Configured
        <5>2. CASE Work(j) = w
          <6>1. exposure'[w] = s /\ DevelopmentMove(k, w, s)
            BY <4>4 DEF ExposureTo
          <6>2. CASE s = exposure[w]
            BY <4>1, <4>2, <5>2, <6>1, <6>2 DEF CallLeads, Work, Doing, Configured
          <6>3. CASE exposure[w] = "none"
            BY <4>1, <4>2, <5>2, <6>1, <6>3, <4>4
               DEF CallLeads, Work, Doing, Configured, Early, Late
          <6>4. CASE exposure[w] = "acknowledged" /\ s = "retrieving"
            BY <4>1, <4>2, <5>2, <6>1, <6>4, <4>4
               DEF CallLeads, Work, Doing, Configured, Early, Late
          <6>5. CASE exposure[w] = "claimed" /\ s = "acknowledged"
                     /\ Doing(k, {"started"})
            <7>1. ~Doing(j, {"started"})
              BY <6>5, <5>2, <3>2, <1>k, <2>0 DEF Inv, ReadInv, Apart, Doing
            <7> QED BY <4>1, <4>2, <5>2, <6>1, <6>5, <7>1, <4>4
                   DEF CallLeads, Work, Doing, Configured, Early, Late
          <6> QED BY <6>1, <6>2, <6>3, <6>4, <6>5 DEF DevelopmentMove
        <5> QED BY <5>1, <5>2
      <4> QED BY <4>3, <4>4, <2>0 DEF Exclusive
    <3> QED BY <3>1, <3>2
  <2>3. ASSUME NEW v \in Works PROVE ReadRow(v)'
    <3>1. ReadRow(v)
      BY <2>0 DEF Inv, ReadInv
    <3>2. exposure'[v] \notin Late => exposure[v] \notin Late
      BY <2>0 DEF ExposureTo
    <3> QED BY <3>1, <3>2 DEF ReadRow
  <2> QED BY <2>1, <2>2, <2>3
<1> QED BY <1>1, <1>3, <1>4, <1>5, <1>6 DEF Evidence

-----------------------------------------------------------------------------
(* The lone call.                                                           *)

LEMMA LoneCalls ==
  ASSUME Inv, Lone, NEW k \in setting.calls, NEW x, NEW pc, NEW new,
         Becomes(k, x, pc, new), CallOwn(k)'
  PROVE  \A j \in Calls : CallOwn(j)'
<1> SUFFICES ASSUME NEW j \in Calls, j # k PROVE CallOwn(j)'
  OBVIOUS
<1>1. calls'[j] = calls[j]
  BY DEF Becomes
<1>2. calls[j].pc = "idle"
  BY LoneCall DEF Busy, Lone
<1> QED BY <1>1, <1>2 DEF CallOwn, Busy, Doing, ImageCodes, ShotCodes

LEMMA ExposureOwn ==
  ASSUME Inv, NEW k \in setting.calls, NEW s, NEW pc,
         Doing(k, ImageCodes),
         Becomes(k, Work(k), pc, calls[k].new), ExposureTo(Work(k), s),
         SentFor(Work(k)),
         UNCHANGED <<setting, current, pointing, taken, mount, camera, reads,
                     originals, results>>,
         Lone => /\ CallOwn(k)'
                 /\ s \notin Early => taken["expose"][current] > 0
                 /\ s \in Late => ~camera.active
  PROVE  OwnInv'
<1> SUFFICES ASSUME Lone PROVE (MountStands /\ CameraHolds
                                /\ (\A j \in Calls : CallOwn(j))
                                /\ \A v \in Works : RowOwn(v))'
  BY LoneKeeps DEF OwnInv
<1>k. k \in Calls
  BY SettingFacts DEF Inv, LedgerInv, Typed, SessionTyped
<1>w. Work(k) = current /\ current \in Works
      /\ (Moves(current) => pointing[current] = "completed")
  BY <1>k DEF Inv, OwnInv, CallOwn, Busy, Doing, ImageCodes,
              LedgerInv, Evidence, CallOK
<1>1. MountStands'
  BY DEF Inv, OwnInv, MountStands, Moves
<1>2. CameraHolds'
  BY <1>w DEF Inv, OwnInv, CameraHolds, ExposureTo
<1>3. \A j \in Calls : CallOwn(j)'
  BY LoneCalls
<1>4. ASSUME NEW v \in Works PROVE RowOwn(v)'
  <2>1. RowOwn(v)
    BY DEF Inv, OwnInv
  <2>2. CASE v = current
    BY <2>1, <2>2, <1>w, PlanFacts DEF RowOwn, ExposureTo
  <2>3. CASE v # current
    <3>1. exposure'[v] = exposure[v] /\ wire'["expose"][v] = wire["expose"][v]
          /\ wire'["point"] = wire["point"]
      BY <2>3, <1>w DEF ExposureTo, SentFor
    <3> QED BY <2>1, <2>3, <3>1 DEF RowOwn
  <2> QED BY <2>2, <2>3
<1> QED BY <1>1, <1>2, <1>3, <1>4

LEMMA PointingOwn ==
  ASSUME Inv, NEW k \in setting.calls, NEW w \in Works, NEW x, NEW pc, NEW s,
         NEW new,
         Becomes(k, x, pc, new), PointingTo(w, s),
         UNCHANGED <<setting, current, exposure, taken, mount, camera, reads,
                     originals, results, wire>>,
         Lone => /\ CallOwn(k)' /\ w = current
                 /\ pointing[w] = "completed" => s = "completed"
                 /\ s = "completed" =>
                      mount.at = Pointing(current) /\ ~mount.slewing
  PROVE  OwnInv'
<1> SUFFICES ASSUME Lone PROVE (MountStands /\ CameraHolds
                                /\ (\A j \in Calls : CallOwn(j))
                                /\ \A v \in Works : RowOwn(v))'
  BY LoneKeeps DEF OwnInv
<1>1. MountStands'
  BY DEF Inv, OwnInv, MountStands, Moves, PointingTo
<1>2. CameraHolds'
  BY DEF Inv, OwnInv, CameraHolds
<1>3. \A j \in Calls : CallOwn(j)'
  BY LoneCalls
<1>4. ASSUME NEW v \in Works PROVE RowOwn(v)'
  <2>1. RowOwn(v)
    BY DEF Inv, OwnInv
  <2>2. CASE v = current
    BY <2>1, <2>2, PlanFacts DEF RowOwn, PointingTo
  <2>3. CASE v # current
    BY <2>1, <2>3 DEF RowOwn, PointingTo
  <2> QED BY <2>2, <2>3
<1> QED BY <1>1, <1>2, <1>3, <1>4

-----------------------------------------------------------------------------
(* The pointing of an image is that of the last movement.                   *)

LEMMA PointingOfMovement ==
  ASSUME NEW w \in Works, Moves(w)
  PROVE  Pointing(w) = w
<1> DEFINE S == {v \in 1 .. w : Moves(v)}
<1>1. w \in S /\ \A v \in S : w >= v /\ v \in Int
  BY PlanFacts
<1>2. \A x \in S : (\A y \in S : x >= y) => x = w
  BY <1>1, PlanFacts
<1>3. \E x \in S : \A y \in S : x >= y
  BY <1>1
<1>4. Max(S) = w
  <2> HIDE DEF S
  <2> QED BY <1>2, <1>3 DEF Max
<1> QED BY <1>4 DEF Pointing

LEMMA PointingOfImage ==
  ASSUME NEW w \in Works, w + 1 \in Works, ~Moves(w + 1)
  PROVE  Pointing(w + 1) = Pointing(w)
<1>1. {v \in 1 .. (w + 1) : Moves(v)} = {v \in 1 .. w : Moves(v)}
  BY PlanFacts
<1> QED BY <1>1 DEF Pointing

\* The session goes on from its current work when nothing of it is under way.
LEMMA AdvanceOwn ==
  ASSUME Inv, Lone, Typed', setting' = setting, current \in Works,
         current' = current + 1,
         UNCHANGED <<wire, taken, mount, camera, originals>>,
         wire["point"][current] = 0, wire["expose"][current] = 0,
         ~camera.active,
         \A v \in Works \ {current} :
           /\ pointing'[v] = pointing[v] /\ exposure'[v] = exposure[v]
           /\ results'[v] = results[v],
         Moves(current) => pointing'[current] = "completed",
         mount.at = Pointing(current), ~mount.slewing,
         exposure'[current] \notin Early => taken["expose"][current] > 0,
         \A j \in Calls : ~Busy(j)'
  PROVE  OwnInv'
<1> SUFFICES (MountStands /\ CameraHolds /\ (\A j \in Calls : CallOwn(j))
              /\ \A v \in Works : RowOwn(v))'
  BY DEF OwnInv
<1>0. \A v \in Works : RowOwn(v)
  BY DEF Inv, OwnInv
<1>n. current \in Nat /\ current' \in Nat
  BY PlanFacts
<1>p. \A v \in Works : current < v => pointing'[v] = "none" /\ exposure'[v] = "none"
  BY <1>0, <1>n, PlanFacts DEF RowOwn
<1>1. MountStands'
  <2> SUFFICES ASSUME current' \in Works,
                      Moves(current') => pointing'[current'] = "completed"
               PROVE  mount.at = Pointing(current')
    BY DEF MountStands, Moves, Pointing
  <2>1. ~Moves(current')
    BY <1>p, <1>n
  <2> QED BY <2>1, PointingOfImage
<1>2. CameraHolds'
  <2>1. ASSUME current' \in Works PROVE ~(taken["expose"][current'] > 0)
    <3>1. exposure[current'] = "none"
      BY <2>1, <1>p, <1>n
    <3>2. wire["expose"][current'] + taken["expose"][current'] = 0
      BY <2>1, <3>1 DEF Inv, LedgerInv, Evidence, RowOK, Sent
    <3>3. wire["expose"][current'] \in Nat /\ taken["expose"][current'] \in Nat
      BY <2>1 DEF Inv, LedgerInv, Typed, RigTyped
    <3> QED BY <3>2, <3>3
  <2> QED BY <2>1 DEF CameraHolds
<1>3. \A j \in Calls : CallOwn(j)'
  BY DEF CallOwn, Busy, Doing, ImageCodes, ShotCodes
<1>4. ASSUME NEW v \in Works PROVE RowOwn(v)'
  <2>1. RowOwn(v)
    BY <1>0
  <2>2. CASE v = current
    BY <2>1, <2>2, <1>n DEF RowOwn, Moves
  <2>3. CASE v # current
    <3>1. v \in Nat
      BY PlanFacts
    <3> QED BY <2>1, <2>3, <3>1, <1>n DEF RowOwn, Moves
  <2> QED BY <2>2, <2>3
<1> QED BY <1>1, <1>2, <1>3, <1>4

-----------------------------------------------------------------------------
(* The steps of a call.                                                     *)

LEMMA Basics ==
  ASSUME Inv, NEW k \in setting.calls
  PROVE  /\ k \in Calls /\ Typed /\ CallOK(k)
         /\ Exclusive => CallLeads(k)
         /\ Lone => CallOwn(k)
         /\ Configured \in BOOLEAN
         /\ \A w \in Works : RowOK(w)
BY SettingFacts DEF Inv, LedgerInv, Evidence, Typed, SessionTyped, ReadInv,
                    OwnInv

LEMMA IdleCall ==
  ASSUME NEW k, NEW w, Becomes(k, w, "idle", FALSE)
  PROVE  CallOK(k)' /\ CallLeads(k)' /\ CallOwn(k)'
BY DEF Becomes, CallOK, CallLeads, CallOwn, Busy, Doing, PointCodes,
       ImageCodes, ShotCodes, KeptCodes

LEMMA FaultsTyped == ASSUME Inv PROVE faults \in Nat
BY DEF Inv, LedgerInv, Typed, SessionTyped

LEMMA ThrowKeeps ==
  ASSUME Inv, NEW k \in setting.calls, Throw(k), UNCHANGED setting
  PROVE  Inv'
<1>1. Becomes(k, 0, "idle", FALSE)
  BY Basics, EndCall DEF Throw
<1>2. UNCHANGED Others /\ faults' \in Nat
  BY FaultsTyped DEF Throw, Others, session, ledger, rig, frames
<1> QED BY <1>1, <1>2, IdleCall, CallsOnly, Basics

LEMMA FailsKeeps ==
  ASSUME Inv, NEW k \in setting.calls, Fails(k), UNCHANGED setting
  PROVE  Inv'
<1>1. Becomes(k, 0, "idle", FALSE)
  BY Basics, EndCall DEF Fails
<1>2. UNCHANGED Others /\ faults' \in Nat
  BY FaultsTyped DEF Fails, Others, session, ledger, rig, frames
<1> QED BY <1>1, <1>2, IdleCall, CallsOnly, Basics

\* A call that goes to pc and changes nothing else.
LEMMA GotoKeeps ==
  ASSUME Inv, NEW k \in setting.calls, NEW pc \in Codes,
         Becomes(k, Work(k), pc, calls[k].new), UNCHANGED Others,
         faults' \in Nat, pc \notin {"started", "read"},
         CallOK(k)', Exclusive => CallLeads(k)', Lone => CallOwn(k)'
  PROVE  Inv'
BY Basics, CallsOnly

LEMMA ObserveAcknowledgedKeeps ==
  ASSUME Inv, NEW k \in setting.calls, At(k, "observe"),
         pointing[Work(k)] = "acknowledged", Goto(k, "poll"),
         UNCHANGED Others, UNCHANGED faults
  PROVE  Inv'
<1> USE DEF Others
<1>1. "poll" \in Codes
  BY DEF Codes
<1>2. Becomes(k, Work(k), "poll", calls[k].new)
  BY <1>1, Basics, GotoCall
<1>b. CallOK(k) /\ (Lone => CallOwn(k))
  BY Basics
<1>3. CallOK(k)'
  BY <1>2, <1>b DEF CallOK, Becomes, Work, Busy, Doing, At, PointCodes,
                    ImageCodes, ShotCodes, KeptCodes, Moves
<1>4. CallLeads(k)'
  BY <1>2 DEF CallLeads, Becomes, Doing, KeptCodes
<1>5. Lone => CallOwn(k)'
  BY <1>2, <1>b DEF CallOwn, Becomes, Busy, Doing, At, ImageCodes, ShotCodes, Work
<1> QED BY <1>1, <1>2, <1>3, <1>4, <1>5, FaultsTyped, GotoKeeps

LEMMA WatchKeeps ==
  ASSUME Inv, NEW k \in setting.calls, Watch(k), UNCHANGED setting
  PROVE  Inv'
<1>0. UNCHANGED Others /\ UNCHANGED faults /\ Goto(k, "seen")
      /\ calls[k].pc = "watch"
  BY DEF Watch, Others, session, ledger, rig, frames, At
<1>1. "seen" \in Codes
  BY DEF Codes
<1>2. Becomes(k, Work(k), "seen", calls[k].new)
  BY <1>0, <1>1, Basics, GotoCall
<1>b. CallOK(k) /\ (Lone => CallOwn(k)) /\ (Exclusive => CallLeads(k))
  BY Basics
<1> USE DEF Others
<1>3. CallOK(k)'
  BY <1>0, <1>2, <1>b DEF CallOK, Becomes, Work, Busy, Doing, PointCodes,
                    ImageCodes, ShotCodes, KeptCodes, Moves, Images
<1>4. Exclusive => CallLeads(k)'
  BY <1>0, <1>2, <1>b
     DEF CallLeads, Becomes, Work, Doing, KeptCodes, Configured
<1>5. Lone => CallOwn(k)'
  BY <1>0, <1>2, <1>b
     DEF CallOwn, Becomes, Busy, Doing, ImageCodes, ShotCodes, Work
<1> QED BY <1>0, <1>1, <1>2, <1>3, <1>4, <1>5, FaultsTyped, GotoKeeps

LEMMA SolveKeeps ==
  ASSUME Inv, NEW k \in setting.calls, Solve(k), UNCHANGED setting
  PROVE  Inv'
<1>c. CASE Throw(k)
  BY <1>c, ThrowKeeps
<1>d. CASE Goto(k, "solving") /\ UNCHANGED <<session, ledger, rig, frames, faults>>
  <2>0. UNCHANGED Others /\ UNCHANGED faults /\ Goto(k, "solving")
        /\ calls[k].pc = "solve"
    BY <1>d DEF Solve, Others, session, ledger, rig, frames, At
  <2>1. "solving" \in Codes
    BY DEF Codes
  <2>2. Becomes(k, Work(k), "solving", calls[k].new)
    BY <2>0, <2>1, Basics, GotoCall
  <2>b. CallOK(k) /\ (Lone => CallOwn(k)) /\ (Exclusive => CallLeads(k))
    BY Basics
  <2> USE DEF Others
  <2>3. CallOK(k)'
    BY <2>0, <2>2, <2>b DEF CallOK, Becomes, Work, Busy, Doing, PointCodes,
                    ImageCodes, ShotCodes, KeptCodes, Moves, Images
  <2>4. Exclusive => CallLeads(k)'
    BY <2>0, <2>2, <2>b
       DEF CallLeads, Becomes, Work, Doing, KeptCodes, Configured
  <2>5. Lone => CallOwn(k)'
    BY <2>0, <2>2, <2>b
       DEF CallOwn, Becomes, Busy, Doing, ImageCodes, ShotCodes, Work
  <2> QED BY <2>0, <2>1, <2>2, <2>3, <2>4, <2>5, FaultsTyped, GotoKeeps
<1> QED BY <1>c, <1>d DEF Solve

LEMMA EnterKeeps ==
  ASSUME Inv, NEW k \in setting.calls, NEW pc \in {"aim", "expose"},
         ~Busy(k), current \in Works, Enter(k, current, pc),
         UNCHANGED Others, UNCHANGED faults,
         pc = "aim" => Plan[current] = "correct",
         pc = "expose" => Plan[current] = "image"
  PROVE  Inv'
<1> USE DEF Others
<1>1. Becomes(k, current, pc, FALSE)
  BY Basics, EnterCall DEF Codes
<1>3. CallOK(k)'
  BY <1>1 DEF CallOK, Becomes, Work, Busy, Doing, PointCodes, ImageCodes,
              ShotCodes, KeptCodes, Images
<1>4. CallLeads(k)'
  BY <1>1 DEF CallLeads, Becomes, Doing, KeptCodes
<1>5. CallOwn(k)'
  BY <1>1 DEF CallOwn, Becomes, Busy, Doing, ImageCodes, ShotCodes, Work, Moves
<1>6. pc \notin {"started", "read"}
  OBVIOUS
<1> QED BY <1>1, <1>3, <1>4, <1>5, <1>6, FaultsTyped, Basics, CallsOnly

LEMMA ClaimKeeps ==
  ASSUME Inv, NEW k \in setting.calls, NEW w \in Works, Moves(w),
         Claim(k, w, "observe"), Lone => w = current,
         UNCHANGED <<setting, current, exposure, wire, taken, mount, camera,
                     reads, originals, results, faults>>
  PROVE  Inv'
<1> DEFINE s == IF pointing[w] = "none" THEN "claimed" ELSE pointing[w]
<1> DEFINE new == pointing[w] = "none"
<1>0. "observe" \in Codes
  BY DEF Codes
<1>1. Becomes(k, w, "observe", new) /\ PointingTo(w, s)
  BY <1>0, Basics, ClaimCall DEF PointingTo
<1>2. s # "none"
  OBVIOUS
<1>3. s \in {"acknowledged", "completed"} => pointing[w] = s /\ taken["point"][w] > 0
  BY Basics DEF RowOK
<1>r. RowOK(w)
  BY Basics
<1>4. CallOK(k)'
  <2>1. new => Sent("point", w) = 0
    BY <1>r DEF RowOK
  <2>2. pointing'[w] # "none"
    BY <1>1, <1>2 DEF PointingTo
  <2> HIDE DEF new
  <2>3. calls'[k].pc = "observe" /\ calls'[k].work = w /\ calls'[k].new = new
    BY <1>1 DEF Becomes
  <2>4. Moves(w)'
    BY DEF Moves
  <2>5. Sent("point", w)' = Sent("point", w)
    BY DEF Sent
  <2> QED BY <2>1, <2>2, <2>3, <2>4, <2>5
          DEF CallOK, Work, Busy, Doing, PointCodes,
              ImageCodes, ShotCodes, KeptCodes
<1>5. CallLeads(k)'
  BY <1>1 DEF CallLeads, Becomes, Doing, KeptCodes
<1>6. Lone => CallOwn(k)'
  BY <1>1 DEF CallOwn, Becomes, Busy, Doing, ImageCodes, ShotCodes, Work
<1>7. Evidence' /\ ReadInv'
  <2>1. new => w = w /\ (pointing[w] = "none" \/ (calls[k].new /\ w = Work(k)))
    OBVIOUS
  <2>2. "observe" \notin {"started", "read"}
    OBVIOUS
  <2> HIDE DEF new, s
  <2> QED BY <1>1, <1>2, <1>3, <1>4, <1>5, <2>1, <2>2, Basics, PointingEvidence
<1>8. OwnInv'
  <2>1. Lone /\ s = "completed" => mount.at = Pointing(current) /\ ~mount.slewing
    BY <1>3 DEF Inv, OwnInv, MountStands
  <2>2. pointing[w] = "completed" => s = "completed"
    OBVIOUS
  <2> HIDE DEF new, s
  <2> QED BY <1>1, <1>6, <2>1, <2>2, PointingOwn
<1>9. Typed'
  BY <1>1 DEF PointingTo, Becomes, Inv, LedgerInv, Typed, SessionTyped,
              RowsTyped, CallsTyped, RigTyped, FramesTyped
<1>10. ProgressIsReal'
  BY DEF Inv, LedgerInv, ProgressIsReal
<1> QED BY <1>7, <1>8, <1>9, <1>10 DEF Inv, LedgerInv

LEMMA BeginKeeps ==
  ASSUME Inv, NEW k \in setting.calls, Begin(k), UNCHANGED setting
  PROVE  Inv'
<1> DEFINE aims == Plan[current] = "correct" /\ Configured
                   /\ pointing[current] = "none"
<1>1. /\ ~Busy(k) /\ current \in Works
      /\ UNCHANGED <<setting, session, exposure, rig, frames, faults>>
  BY DEF Begin, At, Busy
<1>2. CASE Plan[current] = "image" /\ Enter(k, current, "expose")
           /\ UNCHANGED pointing
  <2>1. UNCHANGED Others
    BY <1>1, <1>2 DEF Others, session, rig, frames
  <2> QED BY <1>1, <1>2, <2>1, EnterKeeps
<1>3. CASE aims /\ Enter(k, current, "aim") /\ UNCHANGED pointing
  <2>1. UNCHANGED Others
    BY <1>1, <1>3 DEF Others, session, rig, frames
  <2> QED BY <1>1, <1>3, <2>1, EnterKeeps
<1>4. CASE Plan[current] # "image" /\ Claim(k, current, "observe")
  <2>1. Moves(current)
    BY <1>1, <1>4, PlanFacts DEF Moves
  <2> QED BY <1>1, <1>4, <2>1, ClaimKeeps DEF session, rig, frames
<1> QED BY <1>2, <1>3, <1>4 DEF Begin

LEMMA AimKeeps ==
  ASSUME Inv, NEW k \in setting.calls, Aim(k), UNCHANGED setting
  PROVE  Inv'
<1>1. CASE Throw(k)
  BY <1>1, ThrowKeeps
<1>2. CASE /\ Claim(k, calls[k].work, "observe")
           /\ UNCHANGED <<session, exposure, rig, frames, faults>>
  <2>1. Work(k) \in Works /\ Plan[Work(k)] = "correct"
        /\ (Lone => Work(k) = current)
    BY Basics DEF CallOK, CallOwn, Aim, At, Busy, Doing
  <2>2. Moves(Work(k))
    BY <2>1 DEF Moves
  <2> QED BY <1>2, <2>1, <2>2, ClaimKeeps DEF Work, session, rig, frames
<1> QED BY <1>1, <1>2 DEF Aim

\* A movement is done: a correction ends, an initial attempt exposes.
LEMMA PointedKeeps ==
  ASSUME Inv, NEW k \in setting.calls, NEW w, w = Work(k),
         Doing(k, PointCodes), Pointed(k, w), PointingTo(w, "completed"),
         taken["point"][w] > 0, Lone => mount.at = w /\ ~mount.slewing,
         UNCHANGED <<setting, exposure, wire, taken, mount, camera,
                     reads, originals, results, faults>>
  PROVE  Inv'
<1>b. k \in Calls /\ Typed /\ w \in Works /\ Moves(w) /\ (Lone => w = current)
  BY Basics DEF CallOK, CallOwn, Busy, Doing, PointCodes
<1>r. RowOK(w)
  BY <1>b, Basics
<1>n. /\ wire["point"][w] \in Nat /\ taken["point"][w] \in Nat
      /\ wire["expose"][w] \in Nat /\ taken["expose"][w] \in Nat
      /\ current \in 1 .. Len(Plan) + 1
      /\ pointing' \in [Works -> Pointings]
  BY <1>b DEF Typed, RigTyped, SessionTyped, PointingTo
<1>1. CASE Plan[w] = "correct"
  <2>1. Becomes(k, 0, "idle", FALSE)
        /\ current' = IF current = w THEN w + 1 ELSE current
    BY <1>1, <1>b, EndCall DEF Pointed
  <2>2. Evidence' /\ ReadInv'
    BY <1>b, <2>1, IdleCall, PointingEvidence
  <2>3. Typed'
    <3>1. current' \in 1 .. Len(Plan) + 1
      BY <2>1, <1>n, <1>b, PlanFacts
    <3>2. calls' \in [Calls -> CallRecords]
      BY <2>1 DEF Becomes
    <3> QED BY <3>1, <3>2, <1>n, <1>b
            DEF Typed, SessionTyped, RowsTyped, CallsTyped, RigTyped,
                FramesTyped
  <2>4. ProgressIsReal'
    <3> SUFFICES ASSUME NEW v \in Works, v < current'
                 PROVE  /\ Images(v) => originals[v] # None /\ results[v] # "none"
                        /\ Plan[v] = "correct" => taken["point"][v] > 0
      BY DEF ProgressIsReal, Images
    <3>1. CASE v = w
      BY <3>1, <1>1 DEF Images
    <3>2. CASE v # w
      <4>1. v < current
        BY <2>1, <3>2, <1>n, <1>b, PlanFacts
      <4> QED BY <4>1 DEF Inv, LedgerInv, ProgressIsReal
    <3> QED BY <3>1, <3>2
  <2>5. OwnInv'
    <3> SUFFICES ASSUME Lone PROVE OwnInv'
      BY LoneKeeps DEF OwnInv
    <3>1. current = w /\ current' = current + 1
      BY <1>b, <2>1
    <3>2. wire["point"][w] = 0
      BY <1>r, <1>n DEF RowOK, Sent
    <3>3. Sent("expose", w) = 0
      BY <1>r, <1>1 DEF RowOK, Images
    <3>4. wire["expose"][w] = 0 /\ ~(taken["expose"][w] > 0)
      BY <3>3, <1>n DEF Sent
    <3>5. ~camera.active
      BY <3>1, <3>4 DEF Inv, OwnInv, CameraHolds
    <3>6. mount.at = Pointing(current) /\ ~mount.slewing
      BY <3>1, <1>b, PointingOfMovement
    <3>7. \A j \in Calls : ~Busy(j)'
      <4>1. ASSUME NEW j \in Calls, j # k PROVE ~Busy(j)'
        <5>1. ~Busy(j)
          BY <4>1, LoneCall DEF Lone
        <5> QED BY <4>1, <5>1, <2>1 DEF Becomes, Busy
      <4>2. ~Busy(k)'
        BY <2>1 DEF Becomes, Busy
      <4> QED BY <4>1, <4>2
    <3>8. pointing'[current] = "completed"
          /\ \A v \in Works \ {current} : pointing'[v] = pointing[v]
      BY <3>1 DEF PointingTo
    <3>9. exposure'[current] \notin Early => taken["expose"][current] > 0
      BY <3>1, <1>r, <1>1 DEF RowOK, Images, Early
    <3> QED BY <1>b, <2>3, <3>1, <3>2, <3>4, <3>5, <3>6, <3>7, <3>8, <3>9, AdvanceOwn
  <2> QED BY <2>2, <2>3, <2>4, <2>5 DEF Inv, LedgerInv
<1>2. CASE Plan[w] # "correct"
  <2>1. Becomes(k, w, "expose", calls[k].new) /\ UNCHANGED current
    BY <1>2, <1>b, GotoCall DEF Pointed, Codes
  <2>i. Images(w)
    BY <1>2, <1>b DEF Images, Moves
  <2>c. CallOK(k)'
    <3>1. CallOK(k)
      BY Basics
    <3>2. pointing'[w] = "completed"
      BY DEF PointingTo
    <3> QED BY <1>b, <2>1, <2>i, <3>1, <3>2
            DEF CallOK, Becomes, Work, Busy, Doing, PointCodes, ImageCodes,
                ShotCodes, KeptCodes, Images
  <2>l. CallLeads(k)'
    BY <2>1 DEF CallLeads, Becomes, Doing, KeptCodes
  <2>o. Lone => CallOwn(k)'
    BY <2>1, <1>b DEF CallOwn, Becomes, Work, Busy, Doing, ShotCodes, PointingTo
  <2>2. Evidence' /\ ReadInv'
    BY <1>b, <2>1, <2>c, <2>l, PointingEvidence
  <2>3. Typed'
    BY <2>1, <1>n, <1>b
       DEF Becomes, Typed, SessionTyped, RowsTyped, CallsTyped, RigTyped,
           FramesTyped
  <2>4. ProgressIsReal'
    BY <2>1 DEF Inv, LedgerInv, ProgressIsReal
  <2>5. OwnInv'
    BY <1>b, <2>1, <2>o, PointingOfMovement, PointingOwn
  <2> QED BY <2>2, <2>3, <2>4, <2>5 DEF Inv, LedgerInv
<1> QED BY <1>1, <1>2

LEMMA SettledKeeps ==
  ASSUME Inv, NEW k \in setting.calls, Settled(k, Work(k)),
         Doing(k, PointCodes), taken["point"][Work(k)] > 0,
         Lone => Proven(Work(k)), UNCHANGED setting
  PROVE  Inv'
<1>1. Work(k) \in Works /\ Typed
  BY Basics DEF CallOK, Busy, Doing, PointCodes
<1>2. PointingTo(Work(k), "completed")
  BY <1>1 DEF Settled, PointingTo, Typed, RowsTyped, Pointings
<1>3. Pointed(k, Work(k))
      /\ UNCHANGED <<exposure, wire, taken, mount, camera, reads, originals,
                     results, faults>>
  BY DEF Settled, rig, frames
<1> QED BY <1>2, <1>3, PointedKeeps DEF Proven

LEMMA ProvenTaken ==
  ASSUME Inv, NEW w \in Works, Proven(w)
  PROVE  taken["point"][w] > 0
BY DEF Inv, LedgerInv, Evidence, RigOK, Proven

LEMMA PollKeeps ==
  ASSUME Inv, NEW k \in setting.calls, PollPointing(k), UNCHANGED setting
  PROVE  Inv'
<1>1. Doing(k, PointCodes) /\ Settled(k, Work(k)) /\ Proven(Work(k))
  BY DEF PollPointing, At, Doing, PointCodes, Work
<1>2. Work(k) \in Works
  BY <1>1, Basics DEF CallOK, Busy, Doing, PointCodes
<1> QED BY <1>1, <1>2, ProvenTaken, SettledKeeps

LEMMA AcknowledgedKeeps ==
  ASSUME Inv, NEW k \in setting.calls, NEW w, w = Work(k),
         At(k, "write"), taken["point"][w] > 0,
         PointingTo(w, "acknowledged"), Goto(k, "poll"),
         UNCHANGED <<setting, current, exposure, wire, taken, mount, camera,
                     reads, originals, results, faults>>
  PROVE  Inv'
<1>b. /\ k \in Calls /\ Typed /\ w \in Works /\ Moves(w)
      /\ Lone => w = current /\ pointing[w] = "claimed"
  BY Basics DEF CallOK, CallOwn, Busy, Doing, PointCodes, At
<1>1. Becomes(k, w, "poll", calls[k].new)
  BY <1>b, GotoCall DEF Codes
<1>c. CallOK(k)'
  <2>1. CallOK(k)
    BY Basics
  <2>2. pointing'[w] = "acknowledged"
    BY DEF PointingTo
  <2> QED BY <1>b, <1>1, <2>1, <2>2
          DEF CallOK, Becomes, Work, Busy, Doing, PointCodes, ImageCodes,
              ShotCodes, KeptCodes, Moves
<1>l. CallLeads(k)'
  BY <1>1 DEF CallLeads, Becomes, Doing, KeptCodes
<1>o. Lone => CallOwn(k)'
  BY <1>1, <1>b DEF CallOwn, Becomes, Work, Busy, Doing, ShotCodes, ImageCodes
<1>2. Evidence' /\ ReadInv'
  BY <1>b, <1>1, <1>c, <1>l, PointingEvidence
<1>3. Typed'
  BY <1>1, <1>b
     DEF PointingTo, Becomes, Typed, SessionTyped, RowsTyped, CallsTyped,
         RigTyped, FramesTyped
<1>4. ProgressIsReal'
  BY DEF Inv, LedgerInv, ProgressIsReal
<1>5. OwnInv'
  BY <1>b, <1>1, <1>o, PointingOwn
<1> QED BY <1>2, <1>3, <1>4, <1>5 DEF Inv, LedgerInv

LEMMA WriteRepliesKeeps ==
  ASSUME Inv, NEW k \in setting.calls, WriteReplies(k), UNCHANGED setting
  PROVE  Inv'
<1>1. /\ At(k, "write") /\ taken["point"][Work(k)] > 0
      /\ Doing(k, PointCodes)
  BY DEF WriteReplies, At, Doing, PointCodes, Work
<1>2. Work(k) \in Works /\ Typed
  BY <1>1, Basics DEF CallOK, Busy, Doing, PointCodes
<1>3. CASE Configured
  <2>1. /\ pointing' = [pointing EXCEPT ![Work(k)] = "acknowledged"]
        /\ Goto(k, "poll")
        /\ UNCHANGED <<session, exposure, rig, frames, faults>>
    BY <1>3 DEF WriteReplies, Work
  <2>2. PointingTo(Work(k), "acknowledged")
    BY <2>1, <1>2 DEF PointingTo, Typed, RowsTyped, Pointings
  <2> QED BY <1>1, <2>1, <2>2, AcknowledgedKeeps DEF session, rig, frames
<1>4. CASE ~Configured
  <2>1. Settled(k, Work(k)) /\ ~Lone
    BY <1>4 DEF WriteReplies, Work, Lone
  <2> QED BY <1>1, <2>1, SettledKeeps
<1> QED BY <1>3, <1>4

LEMMA SendMovementKeeps ==
  ASSUME Inv, NEW k \in setting.calls, NEW w, w = Work(k),
         At(k, "observe"), pointing[w] = "claimed", calls[k].new,
         Send("point", w), Goto(k, "write"),
         UNCHANGED <<setting, session, ledger, taken, mount, camera, frames,
                     faults>>
  PROVE  Inv'
<1>u. UNCHANGED <<setting, current, pointing, exposure, taken, mount, camera,
                  reads, originals, results, faults>>
  BY DEF session, ledger, frames
<1>b. /\ k \in Calls /\ Typed /\ w \in Works /\ Moves(w)
      /\ Sent("point", w) = 0 /\ CallOK(k)
      /\ Lone => w = current
  BY Basics DEF CallOK, CallOwn, Busy, Doing, PointCodes, At
<1>1. Becomes(k, w, "write", calls[k].new)
  BY <1>b, GotoCall DEF Codes
<1>2. /\ wire' \in [{"point", "expose"} -> [Works -> Nat]]
      /\ wire'["point"][w] = wire["point"][w] + 1
      /\ wire'["expose"] = wire["expose"]
      /\ \A v \in Works \ {w} : wire'["point"][v] = wire["point"][v]
  <2>1. wire \in [{"point", "expose"} -> [Works -> Nat]]
    BY <1>b DEF Typed, RigTyped
  <2>2. wire' = [wire EXCEPT !["point"] = [wire["point"] EXCEPT ![w] = @ + 1]]
    BY DEF Send
  <2> QED BY <2>1, <2>2, <1>b
<1>3. Typed'
  BY <1>u, <1>b, <1>1, <1>2
     DEF Becomes, Typed, SessionTyped, RowsTyped, CallsTyped, RigTyped,
         FramesTyped
<1>4. RigOK' /\ ProgressIsReal'
  BY <1>u DEF Inv, LedgerInv, Evidence, RigOK, ProgressIsReal
<1>5. ASSUME NEW v \in Works PROVE RowOK(v)'
  <2>1. RowOK(v)
    BY DEF Inv, LedgerInv, Evidence
  <2>2. CASE v = w
    <3>1. Sent("point", w)' = 1
      BY <1>b, <1>2, <1>u DEF Sent, Typed, RigTyped
    <3>2. Sent("expose", w)' = Sent("expose", w)
      BY <1>2, <1>u DEF Sent
    <3> QED BY <2>1, <2>2, <3>1, <3>2, <1>u, <1>b DEF RowOK, Moves
  <2>3. CASE v # w
    <3>1. Sent("point", v)' = Sent("point", v) /\ Sent("expose", v)' = Sent("expose", v)
      BY <1>2, <1>u, <2>3 DEF Sent
    <3> QED BY <2>1, <3>1, <1>u DEF RowOK, Moves, Images
  <2> QED BY <2>2, <2>3
<1>6. ASSUME NEW j \in Calls PROVE CallOK(j)'
  <2>1. CASE j = k
    BY <1>b, <1>1, <1>u, <2>1
       DEF CallOK, Becomes, Work, Busy, Doing, PointCodes, ImageCodes,
           ShotCodes, KeptCodes, Moves, At
  <2>2. CASE j # k
    <3>1. calls'[j] = calls[j]
      BY <2>2, <1>1 DEF Becomes
    <3>2. CallOK(j)
      BY DEF Inv, LedgerInv, Evidence
    <3>3. calls[j].new => Work(j) # w
      BY <2>2, <1>b DEF Inv, LedgerInv, Evidence, Inserted, Work
    <3>4. calls[j].new => Work(j) \in Works
      BY <3>2 DEF CallOK
    <3>5. calls[j].new => Sent("point", Work(j))' = Sent("point", Work(j))
      BY <3>1, <3>3, <3>4, <1>2, <1>u DEF Sent, Work
    <3> QED BY <3>1, <3>2, <3>5, <1>u
            DEF CallOK, Work, Busy, Doing, Moves, Images
  <2> QED BY <2>1, <2>2
<1>7. Inserted'
  BY <1>1, <1>b DEF Inv, LedgerInv, Evidence, Inserted, Becomes, Work
<1>8. ReadInv'
  <2> SUFFICES ASSUME Exclusive PROVE (Apart /\ (\A j \in Calls : CallLeads(j))
                                  /\ \A v \in Works : ReadRow(v))'
    BY <1>u, LoneKeeps DEF ReadInv
  <2>1. Apart'
    BY <1>1 DEF Inv, ReadInv, Apart, Becomes, Work, Doing
  <2>2. ASSUME NEW j \in Calls PROVE CallLeads(j)'
    <3>1. CASE j = k
      BY <3>1, <1>1 DEF CallLeads, Becomes, Doing, KeptCodes
    <3>2. CASE j # k
      <4>1. calls'[j] = calls[j]
        BY <3>2, <1>1 DEF Becomes
      <4>2. CallLeads(j)
        BY DEF Inv, ReadInv
      <4> QED BY <4>1, <4>2, <1>u DEF CallLeads, Work, Doing, Configured
    <3> QED BY <3>1, <3>2
  <2>3. ASSUME NEW v \in Works PROVE ReadRow(v)'
    BY <1>u DEF Inv, ReadInv, ReadRow
  <2> QED BY <2>1, <2>2, <2>3
<1>9. OwnInv'
  <2> SUFFICES ASSUME Lone PROVE (MountStands /\ CameraHolds
                                  /\ (\A j \in Calls : CallOwn(j))
                                  /\ \A v \in Works : RowOwn(v))'
    BY <1>u, LoneKeeps DEF OwnInv
  <2>1. MountStands' /\ CameraHolds'
    BY <1>u DEF Inv, OwnInv, MountStands, CameraHolds, Moves
  <2>2. CallOwn(k)'
    BY <1>1, <1>b, <1>u
       DEF CallOwn, Becomes, Work, Busy, Doing, ShotCodes, ImageCodes
  <2>3. \A j \in Calls : CallOwn(j)'
    BY <2>2, <1>1, LoneCalls
  <2>4. ASSUME NEW v \in Works PROVE RowOwn(v)'
    BY <1>u, <1>2, <1>b DEF Inv, OwnInv, RowOwn, Moves
  <2> QED BY <2>1, <2>3, <2>4
<1> QED BY <1>3, <1>4, <1>5, <1>6, <1>7, <1>8, <1>9 DEF Inv, LedgerInv, Evidence

LEMMA ObserveKeeps ==
  ASSUME Inv, NEW k \in setting.calls, Observe(k), UNCHANGED setting
  PROVE  Inv'
<1> DEFINE w == Work(k)
<1>b. /\ k \in Calls /\ Typed /\ w \in Works /\ Moves(w) /\ RowOK(w)
      /\ At(k, "observe") /\ Doing(k, PointCodes)
      /\ Lone => w = current
  BY Basics DEF CallOK, CallOwn, Busy, Doing, PointCodes, At, Observe
<1> HIDE DEF w
<1>1. CASE /\ pointing[w] = "completed" /\ Pointed(k, w)
           /\ UNCHANGED <<results, ledger, rig, frames, faults>>
  <2>1. PointingTo(w, "completed") /\ taken["point"][w] > 0
    BY <1>1, <1>b DEF PointingTo, Typed, RowsTyped, RowOK, ledger
  <2>2. Lone => mount.at = w /\ ~mount.slewing
    BY <1>1, <1>b, PointingOfMovement DEF Inv, OwnInv, MountStands
  <2> QED BY <1>1, <1>b, <2>1, <2>2, PointedKeeps DEF ledger, rig, frames, w
<1>2. CASE /\ pointing[w] = "acknowledged" /\ Goto(k, "poll")
           /\ UNCHANGED <<session, ledger, rig, frames, faults>>
  BY <1>2, <1>b, ObserveAcknowledgedKeeps
     DEF Others, session, ledger, rig, frames, w
<1>3. CASE pointing[w] = "claimed" /\ Configured /\ Proven(w) /\ Settled(k, w)
  BY <1>3, <1>b, ProvenTaken, SettledKeeps DEF w
<1>4. CASE /\ pointing[w] = "claimed" /\ calls[k].new
           /\ Send("point", w) /\ Goto(k, "write")
           /\ UNCHANGED <<session, ledger, taken, mount, camera, frames, faults>>
  BY <1>4, <1>b, SendMovementKeeps DEF w
<1>5. CASE Throw(k)
  BY <1>5, ThrowKeeps
<1> QED BY <1>1, <1>2, <1>3, <1>4, <1>5 DEF Observe, w, Work

\* A call in an image whose row moves to s goes on to pc.
LEMMA ExposureKeeps ==
  ASSUME Inv, NEW k \in setting.calls, NEW w, w = Work(k), NEW s, NEW pc,
         Doing(k, ImageCodes), pc \in ImageCodes, Goto(k, pc),
         exposure' = [exposure EXCEPT ![w] = s], s \in Exposures \ {"none"},
         UNCHANGED wire \/ (exposure[w] = "none" /\ Send("expose", w)),
         UNCHANGED <<setting, session, pointing, taken, mount, camera, frames,
                     faults>>,
         s \notin Early \/ pc \in ShotCodes \cup KeptCodes => camera.of # 0,
         s \in {"retained", "completed"} \/ pc \in KeptCodes =>
           originals[w] # None,
         exposure[w] \notin Early => s \notin Early,
         pc = "started" => exposure[w] = "none",
         pc = "read" => exposure[w] \notin Late,
         ~Configured => DevelopmentMove(k, w, s),
         Exclusive => /\ exposure[w] \in Late => s \in Late
                      /\ pc = "started" => s = "claimed"
                      /\ pc \in {"watch", "seen"} =>
                           Configured /\ s = "acknowledged"
                      /\ pc = "await" => s \notin Early
                      /\ pc \in {"read"} \cup KeptCodes => s \in Late,
         Lone => /\ s \notin Early \/ pc \in ShotCodes =>
                      taken["expose"][w] > 0
                 /\ s \in Late => ~camera.active
  PROVE  Inv'
<1>b. /\ k \in Calls /\ Typed /\ w \in Works /\ Images(w) /\ CallOK(k)
      /\ Lone => w = current /\ (Moves(w) => pointing[w] = "completed")
  BY Basics DEF CallOK, CallOwn, Busy, Doing, ImageCodes
<1>u. UNCHANGED <<setting, current, pointing, taken, mount, camera, reads,
                  originals, results, faults>>
  BY DEF session, frames
<1>1. Becomes(k, w, pc, calls[k].new)
  BY <1>b, GotoCall DEF ImageCodes, Codes
<1>2. ExposureTo(w, s)
  BY <1>b DEF ExposureTo, Typed, RowsTyped
<1>3. SentFor(w)
  <2>1. wire \in [{"point", "expose"} -> [Works -> Nat]]
    BY <1>b DEF Typed, RigTyped
  <2>2. CASE UNCHANGED wire
    BY <2>1, <2>2 DEF SentFor
  <2>3. CASE exposure[w] = "none" /\ Send("expose", w)
    <3>1. wire' = [wire EXCEPT !["expose"] = [wire["expose"] EXCEPT ![w] = @ + 1]]
      BY <2>3 DEF Send
    <3> QED BY <2>1, <2>3, <3>1, <1>b DEF SentFor
  <2> QED BY <2>2, <2>3
<1>4. CallOK(k)'
  <2>1. calls'[k].pc = pc /\ calls'[k].work = w /\ calls'[k].new = calls[k].new
    BY <1>1 DEF Becomes
  <2>2. pc \notin PointCodes /\ pc # "aim" /\ pc # "idle"
    BY DEF ImageCodes, PointCodes
  <2>3. pc \in ShotCodes \cup KeptCodes => camera'.of # 0
    BY <1>u
  <2> QED BY <1>b, <1>u, <2>1, <2>2, <2>3
          DEF CallOK, Work, Busy, Doing, PointCodes, Images
<1>5. Exclusive => CallLeads(k)'
  <2> SUFFICES ASSUME Exclusive PROVE CallLeads(k)'
    OBVIOUS
  <2>1. calls'[k].pc = pc /\ calls'[k].work = w
    BY <1>1 DEF Becomes
  <2>2. exposure'[w] = s
    BY <1>2 DEF ExposureTo
  <2>3. exposure[w] \notin Late => reads[w] = 0
    BY <1>b DEF Inv, ReadInv, ReadRow
  <2>4. Configured' <=> Configured
    BY <1>u, LoneKeeps
  <2> QED BY <1>u, <2>1, <2>2, <2>3, <2>4 DEF CallLeads, Work, Doing
<1>6. Lone => CallOwn(k)'
  <2>1. calls'[k].pc = pc /\ calls'[k].work = w /\ pc # "write"
    BY <1>1 DEF Becomes, ImageCodes
  <2> QED BY <1>b, <1>u, <2>1 DEF CallOwn, Work, Busy, Doing, Moves
<1>7. Evidence' /\ ReadInv'
  <2>1. s # "none" /\ (s \notin Early => camera.of # 0)
        /\ (s \in {"retained", "completed"} => originals[w] # None)
    OBVIOUS
  <2> QED BY <1>1, <1>2, <1>3, <1>4, <1>5, <1>u, <2>1, ExposureEvidence
<1>8. OwnInv'
  BY <1>1, <1>2, <1>3, <1>6, <1>u, <1>b, ExposureOwn
<1>9. Typed'
  BY <1>u, <1>b, <1>1, <1>2, <1>3
     DEF Becomes, ExposureTo, SentFor, Typed, SessionTyped, RowsTyped,
         CallsTyped, RigTyped, FramesTyped
<1>10. ProgressIsReal'
  BY <1>u DEF Inv, LedgerInv, ProgressIsReal, Images
<1> QED BY <1>7, <1>8, <1>9, <1>10 DEF Inv, LedgerInv

LEMMA ExposeFirstKeeps ==
  ASSUME Inv, NEW k \in setting.calls, NEW w, w = Work(k), At(k, "expose"),
         exposure[w] = "none", GoOn(k, w, "claimed", "started"),
         Send("expose", w), UNCHANGED setting
  PROVE  Inv'
<1>1. DevelopmentMove(k, w, "claimed")
  BY DEF DevelopmentMove
<1> QED BY <1>1, ExposureKeeps
        DEF GoOn, At, Doing, ImageCodes, ShotCodes, KeptCodes, Early, Late,
            Exposures

LEMMA RecoveryFacts ==
  ASSUME NEW w, Recovery(w) # Lost
  PROVE  \/ /\ exposure[w] = "claimed" /\ Configured /\ camera.active
            /\ Recovery(w)[1] = "observed" /\ Recovery(w)[2] = "await"
         \/ /\ exposure[w] = "acknowledged" /\ Recovery(w)[1] = "acknowledged"
            /\ Recovery(w)[2] = (IF Configured THEN "watch" ELSE "await")
         \/ /\ exposure[w] = "observed"
            /\ Recovery(w)[1] = "observed" /\ Recovery(w)[2] = "await"
         \/ /\ exposure[w] = "retrieving" /\ Configured /\ originals[w] # None
            /\ Recovery(w)[1] = "retained" /\ Recovery(w)[2] = "solve"
         \/ /\ exposure[w] \in {"retained", "completed"} /\ Configured
            /\ Recovery(w)[1] = exposure[w] /\ Recovery(w)[2] = "solve"
BY DEF Recovery

LEMMA ExposeFoundKeeps ==
  ASSUME Inv, NEW k \in setting.calls, NEW w, w = Work(k), At(k, "expose"),
         NEW s, NEW pc, GoOn(k, w, s, pc), UNCHANGED wire, UNCHANGED setting,
         \/ /\ exposure[w] = "claimed" /\ Configured /\ camera.active
            /\ s = "observed" /\ pc = "await"
         \/ /\ exposure[w] = "acknowledged" /\ s = "acknowledged"
            /\ pc = (IF Configured THEN "watch" ELSE "await")
         \/ exposure[w] = "observed" /\ s = "observed" /\ pc = "await"
         \/ /\ exposure[w] = "retrieving" /\ Configured /\ originals[w] # None
            /\ s = "retained" /\ pc = "solve"
         \/ /\ exposure[w] \in {"retained", "completed"} /\ Configured
            /\ s = exposure[w] /\ pc = "solve"
  PROVE  Inv'
<1>b. /\ k \in Calls /\ Typed /\ w \in Works /\ RowOK(w)
      /\ Lone => w = current /\ RowOwn(w)
  BY Basics DEF CallOK, CallOwn, Busy, Doing, ImageCodes, At, Inv, OwnInv
<1>1. /\ pc \in ImageCodes /\ s \in Exposures \ {"none"} /\ s \notin Early
      /\ Doing(k, ImageCodes) /\ pc \notin {"started", "read"}
  BY DEF ImageCodes, Exposures, Early, Doing, At
<1>2. camera.of # 0
  BY <1>b DEF RowOK, Early, Inv, LedgerInv, Evidence, RigOK
<1>3. s \in {"retained", "completed"} \/ pc \in KeptCodes => originals[w] # None
  BY <1>b DEF RowOK, KeptCodes
<1>4. ~Configured => DevelopmentMove(k, w, s)
  BY DEF DevelopmentMove
<1>5. /\ exposure[w] \in Late => s \in Late
      /\ pc \in {"watch", "seen"} => Configured /\ s = "acknowledged"
      /\ pc \in {"read"} \cup KeptCodes => s \in Late
  BY DEF Late, KeptCodes
<1>6. ASSUME Lone PROVE taken["expose"][w] > 0 /\ (s \in Late => ~camera.active)
  <2>1. CameraHolds
    BY <1>6 DEF Inv, OwnInv
  <2>2. taken["expose"][w] > 0
    BY <1>6, <1>b, <2>1 DEF RowOwn, CameraHolds, Early
  <2>3. s \in Late => exposure[w] \in Late
    BY DEF Late
  <2> QED BY <1>6, <1>b, <2>1, <2>2, <2>3 DEF CameraHolds
<1> QED BY <1>1, <1>2, <1>3, <1>4, <1>5, <1>6, ExposureKeeps DEF GoOn

LEMMA ExposeKeeps ==
  ASSUME Inv, NEW k \in setting.calls, Expose(k), UNCHANGED setting
  PROVE  Inv'
<1> PICK w : w = Work(k)
  OBVIOUS
<1>0. At(k, "expose")
  BY DEF Expose
<1>1. CASE exposure[w] = "none" /\ GoOn(k, w, "claimed", "started")
           /\ Send("expose", w)
  BY <1>0, <1>1, ExposeFirstKeeps
<1>2. CASE Recovery(w) # Lost /\ GoOn(k, w, Recovery(w)[1], Recovery(w)[2])
           /\ UNCHANGED wire
  BY <1>0, <1>2, RecoveryFacts, ExposeFoundKeeps
<1>3. CASE Throw(k)
  BY <1>3, ThrowKeeps
<1> QED BY <1>1, <1>2, <1>3 DEF Expose, Work

LEMMA StartRepliesKeeps ==
  ASSUME Inv, NEW k \in setting.calls, StartReplies(k), UNCHANGED setting
  PROVE  Inv'
<1> PICK w : w = Work(k)
  OBVIOUS
<1> DEFINE pc == IF Configured THEN "watch" ELSE "await"
<1>0. /\ calls[k].pc = "started" /\ taken["expose"][w] > 0
      /\ exposure' = [exposure EXCEPT ![w] = "acknowledged"] /\ Goto(k, pc)
      /\ UNCHANGED <<session, pointing, rig, frames, faults>>
  BY DEF StartReplies, At, Work
<1>b. /\ w \in Works /\ RowOK(w) /\ CallOK(k)
      /\ Exclusive => exposure[w] = "claimed"
  BY <1>0, Basics DEF CallOK, CallLeads, Busy, Doing
<1>1. /\ Doing(k, ImageCodes) /\ Doing(k, {"started"}) /\ pc \in ImageCodes
      /\ pc \notin {"started", "read"} \cup KeptCodes
  BY <1>0 DEF Doing, ImageCodes, KeptCodes
<1>2. camera.of # 0
  BY <1>0, <1>b DEF RowOK
<1>3. ~Configured => DevelopmentMove(k, w, "acknowledged")
  BY <1>1, <1>b DEF DevelopmentMove, Exclusive
<1>4. Exclusive => exposure[w] \notin Late
  BY <1>b DEF Late
<1>5. /\ "acknowledged" \in Exposures \ {"none"} /\ "acknowledged" \notin Early
      /\ "acknowledged" \notin Late
      /\ pc \in {"watch", "seen"} => Configured
  BY DEF Exposures, Early, Late
<1> HIDE DEF pc
<1> QED BY <1>0, <1>1, <1>2, <1>3, <1>4, <1>5, ExposureKeeps DEF rig

LEMMA SeenKeeps ==
  ASSUME Inv, NEW k \in setting.calls, Seen(k), UNCHANGED setting
  PROVE  Inv'
<1> PICK w : w = Work(k)
  OBVIOUS
<1>0. /\ calls[k].pc = "seen"
      /\ exposure' = [exposure EXCEPT ![w] = "observed"] /\ Goto(k, "await")
      /\ UNCHANGED <<session, pointing, rig, frames, faults>>
  BY DEF Seen, At, Work
<1>b. /\ w \in Works /\ CallOK(k) /\ camera.of # 0
      /\ Exclusive => Configured /\ exposure[w] = "acknowledged"
      /\ Lone => taken["expose"][w] > 0
  BY <1>0, Basics DEF CallOK, CallLeads, CallOwn, Busy, Doing, ShotCodes
<1>1. Doing(k, ImageCodes) /\ "await" \in ImageCodes /\ "await" \notin KeptCodes
  BY <1>0 DEF Doing, ImageCodes, KeptCodes
<1>2. Configured
  BY <1>b DEF Exclusive
<1>3. /\ "observed" \in Exposures \ {"none"} /\ "observed" \notin Early
      /\ "observed" \notin Late /\ (Exclusive => exposure[w] \notin Late)
  BY <1>b DEF Exposures, Early, Late
<1> QED BY <1>0, <1>b, <1>1, <1>2, <1>3, ExposureKeeps DEF rig

LEMMA AwaitKeeps ==
  ASSUME Inv, NEW k \in setting.calls, Await(k), UNCHANGED setting
  PROVE  Inv'
<1> PICK w : w = Work(k)
  OBVIOUS
<1>1. CASE Throw(k)
  BY <1>1, ThrowKeeps
<1>2. CASE /\ exposure[w] = (IF Configured THEN "observed" ELSE "acknowledged")
           /\ exposure' = [exposure EXCEPT ![w] = "retrieving"]
           /\ Goto(k, "read")
           /\ UNCHANGED <<session, pointing, rig, frames, faults>>
  <2>0. calls[k].pc = "await" /\ ~camera.active
    BY DEF Await, At
  <2>b. /\ w \in Works /\ CallOK(k) /\ camera.of # 0
        /\ Lone => taken["expose"][w] > 0
    BY <2>0, Basics DEF CallOK, CallOwn, Busy, Doing, ShotCodes
  <2>1. Doing(k, ImageCodes) /\ "read" \in ImageCodes /\ "read" \notin KeptCodes
    BY <2>0 DEF Doing, ImageCodes, KeptCodes
  <2>2. ~Configured => DevelopmentMove(k, w, "retrieving")
    BY <1>2 DEF DevelopmentMove
  <2>3. /\ "retrieving" \in Exposures \ {"none"} /\ "retrieving" \notin Early
        /\ "retrieving" \in Late /\ exposure[w] \notin Late
    BY <1>2 DEF Exposures, Early, Late
  <2> QED BY <1>2, <2>0, <2>b, <2>1, <2>2, <2>3, ExposureKeeps DEF rig
<1> QED BY <1>1, <1>2 DEF Await, Work

LEMMA RetainKeeps ==
  ASSUME Inv, NEW k \in setting.calls, Retain(k), UNCHANGED setting
  PROVE  Inv'
<1> PICK w : w = Work(k)
  OBVIOUS
<1> DEFINE s == IF Configured THEN "retained" ELSE exposure[w]
<1>0. /\ calls[k].pc = "retain"
      /\ exposure' = [exposure EXCEPT ![w] = s] /\ Goto(k, "solve")
      /\ UNCHANGED <<session, pointing, rig, frames, faults>>
  BY DEF Retain, At, Work
<1>b. /\ w \in Works /\ CallOK(k) /\ camera.of # 0 /\ originals[w] # None
      /\ Exclusive => exposure[w] \in Late
      /\ Lone => w = current /\ RowOwn(w) /\ CameraHolds
  BY <1>0, Basics
     DEF CallOK, CallLeads, CallOwn, Busy, Doing, KeptCodes, Inv, OwnInv
<1>1. /\ Doing(k, ImageCodes) /\ "solve" \in ImageCodes
      /\ "solve" \notin ShotCodes /\ "solve" \in KeptCodes
      /\ "solve" \notin {"started", "read", "watch", "seen", "await"}
  BY <1>0 DEF Doing, ImageCodes, KeptCodes, ShotCodes
<1>2. ~Configured => DevelopmentMove(k, w, s)
  BY DEF DevelopmentMove
<1>3. ~Configured => exposure[w] \in Late
  BY <1>b DEF Exclusive
<1>4. s \in Late
  BY <1>3 DEF Late
<1>5. s \in Exposures \ {"none"} /\ s \notin Early
  BY <1>4 DEF Late, Exposures, Early
<1>6. ASSUME Lone PROVE taken["expose"][w] > 0 /\ ~camera.active
  <2>1. exposure[w] \in Late /\ exposure[w] \notin Early
    BY <1>6, <1>b DEF Exclusive, Lone, Late, Early
  <2> QED BY <1>6, <1>b, <2>1 DEF RowOwn, CameraHolds
<1> HIDE DEF s
<1> QED BY <1>0, <1>b, <1>1, <1>2, <1>4, <1>5, <1>6, ExposureKeeps DEF rig

-----------------------------------------------------------------------------
(* The image, its result, and the session.                                  *)

LEMMA ReadKeeps ==
  ASSUME Inv, NEW k \in setting.calls, Read(k), UNCHANGED setting
  PROVE  Inv'
<1> PICK w : w = Work(k)
  OBVIOUS
<1>0. /\ calls[k].pc = "read" /\ reads' = [reads EXCEPT ![w] = @ + 1]
      /\ UNCHANGED <<session, ledger, rig, faults>>
  BY DEF Read, At, Work
<1>u. UNCHANGED <<setting, current, results, pointing, exposure, wire, taken,
                  mount, camera, faults>>
  BY <1>0 DEF session, ledger, rig
<1>b. /\ k \in Calls /\ Typed /\ w \in Works /\ Images(w) /\ CallOK(k)
      /\ camera.of # 0
      /\ Exclusive => exposure[w] \in Late /\ reads[w] = 0
      /\ Lone => /\ w = current /\ taken["expose"][w] > 0
                 /\ Moves(current) => pointing[current] = "completed"
  BY <1>0, Basics
     DEF CallOK, CallLeads, CallOwn, Busy, Doing, ShotCodes, ImageCodes
<1>1. \E pc \in {"retain", "idle"}, x \in {0, w}, new \in BOOLEAN :
        /\ Becomes(k, x, pc, new)
        /\ pc = "retain" => x = w /\ new = calls[k].new
        /\ pc = "idle" => x = 0 /\ new = FALSE
        /\ pc = "retain" => originals'[w] # None
  <2>1. CASE originals[w] = None
    <3>1. /\ originals' = [originals EXCEPT ![w] = [of |-> camera.of, at |-> camera.at]]
          /\ Goto(k, "retain")
      BY <2>1 DEF Read, Work
    <3>2. Becomes(k, w, "retain", calls[k].new) /\ calls[k].new \in BOOLEAN
      BY <3>1, <1>b, GotoCall, CallFacts DEF Codes
    <3>3. originals'[w] = [of |-> camera.of, at |-> camera.at]
      BY <3>1, <1>b DEF Typed, FramesTyped
    <3>4. originals'[w] # None
      BY <3>3, <1>b DEF None
    <3> QED BY <3>2, <3>4
  <2>2. CASE originals[w] # None
    <3>1. Becomes(k, 0, "idle", FALSE)
      BY <2>2, <1>b, EndCall DEF Read, Work
    <3> QED BY <3>1
  <2> QED BY <2>1, <2>2
<1>2. PICK pc \in {"retain", "idle"}, x \in {0, w}, new \in BOOLEAN :
        /\ Becomes(k, x, pc, new)
        /\ pc = "retain" => x = w /\ new = calls[k].new
        /\ pc = "idle" => x = 0 /\ new = FALSE
        /\ pc = "retain" => originals'[w] # None
  BY <1>1
<1>3. /\ originals' \in [Works -> FrameRecords]
      /\ \A v \in Works \ {w} : originals'[v] = originals[v]
      /\ \/ originals'[w] = originals[w]
         \/ originals[w] = None /\
            originals'[w] = [of |-> camera.of, at |-> camera.at]
  <2>1. originals \in [Works -> FrameRecords]
        /\ [of |-> camera.of, at |-> camera.at] \in FrameRecords
    BY <1>b DEF Typed, FramesTyped, RigTyped, CameraRecords, FrameRecords
  <2> QED BY <2>1, <1>b DEF Read, Work
<1>4. \A v \in Works : originals[v] # None => originals'[v] # None
  BY <1>3
<1>5. /\ reads' \in [Works -> Nat] /\ reads'[w] = reads[w] + 1
      /\ \A v \in Works \ {w} : reads'[v] = reads[v]
  BY <1>0, <1>b DEF Typed, FramesTyped
<1>6. Typed'
  BY <1>u, <1>b, <1>2, <1>3, <1>5
     DEF Becomes, Typed, SessionTyped, RowsTyped, CallsTyped, RigTyped,
         FramesTyped
<1>7. RigOK'
  BY <1>u DEF Inv, LedgerInv, Evidence, RigOK
<1>8. ProgressIsReal'
  BY <1>u, <1>4 DEF Inv, LedgerInv, ProgressIsReal, Images
<1>9. ASSUME NEW v \in Works PROVE RowOK(v)'
  BY <1>u, <1>4, Basics DEF RowOK, Sent, Moves, Images
<1>10. CallOK(k)'
  <2>1. CASE pc = "idle"
    BY <2>1, <1>2, IdleCall
  <2>2. CASE pc = "retain"
    BY <2>2, <1>2, <1>b, <1>u
       DEF CallOK, Becomes, Work, Busy, Doing, PointCodes, ImageCodes,
           ShotCodes, KeptCodes, Images
  <2> QED BY <2>1, <2>2
<1>11. ASSUME NEW j \in Calls, j # k PROVE CallOK(j)'
  <2>1. calls'[j] = calls[j]
    BY <1>2, <1>11 DEF Becomes
  <2>2. CallOK(j)
    BY DEF Inv, LedgerInv, Evidence
  <2>3. Doing(j, KeptCodes) => Work(j) \in Works
    BY <2>2 DEF CallOK, Busy, Doing, KeptCodes
  <2> QED BY <2>1, <2>2, <2>3, <1>u, <1>4
          DEF CallOK, Work, Busy, Doing, Sent, Moves, Images
<1>12. Inserted'
  BY <1>2, <1>b DEF Inv, LedgerInv, Evidence, Inserted, Becomes, Work
<1>13. ReadInv'
  <2> SUFFICES ASSUME Exclusive PROVE (Apart /\ (\A j \in Calls : CallLeads(j))
                                  /\ \A v \in Works : ReadRow(v))'
    BY <1>u, LoneKeeps DEF ReadInv
  <2>c. Configured' <=> Configured
    BY <1>u, LoneKeeps
  <2>1. Apart'
    BY <1>2 DEF Inv, ReadInv, Apart, Becomes, Work, Doing
  <2>2. CallLeads(k)'
    <3>1. CASE pc = "idle"
      BY <3>1, <1>2, IdleCall
    <3>2. CASE pc = "retain"
      <4>1. calls'[k].pc = "retain" /\ calls'[k].work = w
        BY <3>2, <1>2 DEF Becomes
      <4> QED BY <4>1, <1>b, <1>u DEF CallLeads, Work, Doing
    <3> QED BY <3>1, <3>2
  <2>3. ASSUME NEW j \in Calls, j # k PROVE CallLeads(j)'
    <3>1. calls'[j] = calls[j]
      BY <1>2, <2>3 DEF Becomes
    <3>2. CallLeads(j) /\ Apart
      BY DEF Inv, ReadInv
    <3>3. Doing(j, {"read"}) => Work(j) # w
      BY <3>2, <2>3, <1>b, <1>0 DEF Apart, Doing
    <3>4. Doing(j, {"read"}) => Work(j) \in Works
      BY Basics DEF Inv, LedgerInv, Evidence, CallOK, Busy, Doing
    <3>5. Doing(j, {"read"}) => reads'[Work(j)] = 0
      BY <3>2, <3>3, <3>4, <1>5 DEF CallLeads
    <3> QED BY <3>1, <3>2, <3>5, <1>u, <2>c DEF CallLeads, Work, Doing
  <2>4. ASSUME NEW v \in Works PROVE ReadRow(v)'
    <3>1. ReadRow(v)
      BY DEF Inv, ReadInv
    <3> QED BY <3>1, <1>5, <1>b, <1>u DEF ReadRow
  <2> QED BY <2>1, <2>2, <2>3, <2>4
<1>14. OwnInv'
  <2> SUFFICES ASSUME Lone PROVE (MountStands /\ CameraHolds
                                  /\ (\A j \in Calls : CallOwn(j))
                                  /\ \A v \in Works : RowOwn(v))'
    BY <1>u, LoneKeeps DEF OwnInv
  <2>1. MountStands' /\ CameraHolds'
    BY <1>u DEF Inv, OwnInv, MountStands, CameraHolds, Moves, Pointing
  <2>2. CallOwn(k)'
    <3>1. CASE pc = "idle"
      BY <3>1, <1>2, IdleCall
    <3>2. CASE pc = "retain"
      <4>1. calls'[k].pc = "retain" /\ calls'[k].work = w
        BY <3>2, <1>2 DEF Becomes
      <4> QED BY <4>1, <1>b, <1>u
              DEF CallOwn, Work, Busy, Doing, ShotCodes, Moves
    <3> QED BY <3>1, <3>2
  <2>3. \A j \in Calls : CallOwn(j)'
    BY <2>2, <1>2, LoneCalls
  <2>4. ASSUME NEW v \in Works PROVE RowOwn(v)'
    <3>1. RowOwn(v)
      BY DEF Inv, OwnInv
    <3>2. CASE v # w
      BY <3>1, <3>2, <1>u, <1>3 DEF RowOwn, Moves, Pointing
    <3>3. CASE v = w
      <4>1. camera.of = w /\ camera.at = Pointing(w)
        BY <1>b DEF Inv, OwnInv, CameraHolds
      <4>2. originals'[w].of \in {None.of, w}
            /\ (originals'[w].of = w => originals'[w].at = Pointing(w))
        BY <3>1, <3>3, <4>1, <1>3 DEF RowOwn
      <4> QED BY <3>1, <3>3, <4>2, <1>u DEF RowOwn, Moves, Pointing
    <3> QED BY <3>2, <3>3
  <2> QED BY <2>1, <2>3, <2>4
<1> QED BY <1>6, <1>7, <1>8, <1>9, <1>10, <1>11, <1>12, <1>13, <1>14
        DEF Inv, LedgerInv, Evidence

LEMMA SolverReturnsKeeps ==
  ASSUME Inv, NEW k \in setting.calls, SolverReturns(k), UNCHANGED setting
  PROVE  Inv'
<1> PICK w : w = Work(k)
  OBVIOUS
<1>0. /\ calls[k].pc = "solving" /\ End(k)
      /\ exposure' = [exposure EXCEPT ![w] = "completed"]
      /\ current' = IF current = w THEN w + 1 ELSE current
      /\ UNCHANGED <<pointing, rig, frames, faults>>
  BY DEF SolverReturns, At, Work
<1>u. UNCHANGED <<setting, pointing, wire, taken, mount, camera, reads,
                  originals, faults>>
  BY <1>0 DEF rig, frames
<1>b. /\ k \in Calls /\ Typed /\ w \in Works /\ Images(w) /\ RowOK(w)
      /\ camera.of # 0 /\ originals[w] # None
      /\ Exclusive => exposure[w] \in Late
      /\ Lone => /\ w = current
                 /\ Moves(current) => pointing[current] = "completed"
  BY <1>0, Basics
     DEF CallOK, CallLeads, CallOwn, Busy, Doing, KeptCodes, ImageCodes
<1>1. Becomes(k, 0, "idle", FALSE)
  BY <1>0, <1>b, EndCall
<1>2. /\ results' \in [Works -> {"none", "Solved", "NoSolution"}]
      /\ results'[w] # "none"
      /\ \A v \in Works \ {w} : results'[v] = results[v]
  <2>1. PICK result \in {"Solved", "NoSolution"} :
          results' = [results EXCEPT ![w] = result]
    BY DEF SolverReturns, Work
  <2> QED BY <2>1, <1>b DEF Typed, SessionTyped
<1>3. ExposureTo(w, "completed")
  BY <1>0, <1>b DEF ExposureTo, Typed, RowsTyped, Exposures
<1>n. /\ wire["point"][w] \in Nat /\ taken["point"][w] \in Nat
      /\ wire["expose"][w] \in Nat /\ taken["expose"][w] \in Nat
      /\ current \in 1 .. Len(Plan) + 1 /\ current' \in 1 .. Len(Plan) + 1
  BY <1>0, <1>b, PlanFacts DEF Typed, RigTyped, SessionTyped
<1>4. Typed'
  BY <1>u, <1>b, <1>1, <1>2, <1>3, <1>n
     DEF Becomes, ExposureTo, Typed, SessionTyped, RowsTyped, CallsTyped,
         RigTyped, FramesTyped
<1>5. RigOK'
  BY <1>u DEF Inv, LedgerInv, Evidence, RigOK
<1>6. ProgressIsReal'
  <2> SUFFICES ASSUME NEW v \in Works, v < current'
               PROVE  /\ Images(v) => originals'[v] # None /\ results'[v] # "none"
                      /\ Plan[v] = "correct" => taken'["point"][v] > 0
    BY DEF ProgressIsReal, Images
  <2>1. CASE v = w
    BY <2>1, <1>b, <1>2, <1>u DEF Images
  <2>2. CASE v # w
    <3>1. v < current
      BY <2>2, <1>0, <1>n, <1>b, PlanFacts
    <3> QED BY <3>1, <2>2, <1>2, <1>u DEF Inv, LedgerInv, ProgressIsReal
  <2> QED BY <2>1, <2>2
<1>7. ASSUME NEW v \in Works PROVE RowOK(v)'
  <2>1. RowOK(v)
    BY Basics
  <2>2. CASE v = w
    BY <2>1, <2>2, <1>b, <1>u, <1>3
       DEF RowOK, Sent, ExposureTo, Moves, Images, Early
  <2>3. CASE v # w
    BY <2>1, <2>3, <1>2, <1>u, <1>3 DEF RowOK, Sent, ExposureTo, Moves, Images
  <2> QED BY <2>2, <2>3
<1>8. ASSUME NEW j \in Calls PROVE CallOK(j)'
  <2>1. CASE j = k
    BY <2>1, <1>1, IdleCall
  <2>2. CASE j # k
    <3>1. calls'[j] = calls[j]
      BY <2>2, <1>1 DEF Becomes
    <3>2. CallOK(j)
      BY DEF Inv, LedgerInv, Evidence
    <3> QED BY <3>1, <3>2, <1>u
            DEF CallOK, Work, Busy, Doing, Sent, Moves, Images
  <2> QED BY <2>1, <2>2
<1>9. Inserted'
  BY <1>1 DEF Inv, LedgerInv, Evidence, Inserted, Becomes, Work
<1>10. ReadInv'
  <2> SUFFICES ASSUME Exclusive PROVE (Apart /\ (\A j \in Calls : CallLeads(j))
                                  /\ \A v \in Works : ReadRow(v))'
    BY <1>u, LoneKeeps DEF ReadInv
  <2>c. Configured' <=> Configured
    BY <1>u, LoneKeeps
  <2>1. Apart'
    BY <1>1 DEF Inv, ReadInv, Apart, Becomes, Work, Doing
  <2>2. ASSUME NEW j \in Calls, j # k PROVE CallLeads(j)'
    <3>1. calls'[j] = calls[j]
      BY <1>1, <2>2 DEF Becomes
    <3>2. CallLeads(j) /\ CallOK(j)
      BY DEF Inv, ReadInv, LedgerInv, Evidence
    <3>3. CASE Work(j) = w
      BY <3>1, <3>2, <3>3, <1>b, <1>3, <1>u, <2>c
         DEF CallLeads, Work, Doing, ExposureTo, Late, Early
    <3>4. CASE Work(j) # w
      <4>1. Busy(j) => exposure'[Work(j)] = exposure[Work(j)]
        BY <3>2, <3>4, <1>3 DEF ExposureTo, CallOK
      <4> QED BY <3>1, <3>2, <4>1, <1>u, <2>c
              DEF CallLeads, Work, Doing, Busy, KeptCodes
    <3> QED BY <3>3, <3>4
  <2>3. CallLeads(k)'
    BY <1>1, IdleCall
  <2>4. ASSUME NEW v \in Works PROVE ReadRow(v)'
    <3>1. ReadRow(v)
      BY DEF Inv, ReadInv
    <3> QED BY <3>1, <1>3, <1>u DEF ReadRow, ExposureTo, Late
  <2> QED BY <2>1, <2>2, <2>3, <2>4
<1>11. OwnInv'
  <2> SUFFICES ASSUME Lone PROVE OwnInv'
    BY <1>u, LoneKeeps DEF OwnInv
  <2>1. w = current /\ current' = current + 1
    BY <1>b, <1>0
  <2>2. exposure[w] \in Late /\ exposure[w] \notin Early
    BY <1>b DEF Exclusive, Lone, Late, Early
  <2>3. taken["expose"][w] > 0 /\ ~camera.active
    BY <2>1, <2>2, <1>b DEF Inv, OwnInv, RowOwn, CameraHolds
  <2>4. wire["expose"][w] = 0
    BY <2>3, <1>b, <1>n DEF RowOK, Sent
  <2>5. wire["point"][w] = 0
    <3>1. CASE Moves(w)
      <4>1. taken["point"][w] > 0
        BY <3>1, <2>1, <1>b DEF RowOK
      <4> QED BY <4>1, <1>b, <1>n DEF RowOK, Sent
    <3>2. CASE ~Moves(w)
      BY <3>2, <1>b, <1>n DEF RowOK, Sent
    <3> QED BY <3>1, <3>2
  <2>6. mount.at = Pointing(current) /\ ~mount.slewing
    BY <2>1, <1>b DEF Inv, OwnInv, MountStands
  <2>7. \A j \in Calls : ~Busy(j)'
    <3>1. ASSUME NEW j \in Calls, j # k PROVE ~Busy(j)'
      <4>1. ~Busy(j)
        BY <3>1, LoneCall DEF Lone
      <4> QED BY <3>1, <4>1, <1>1 DEF Becomes, Busy
    <3>2. ~Busy(k)'
      BY <1>1 DEF Becomes, Busy
    <3> QED BY <3>1, <3>2
  <2>8. \A v \in Works \ {current} :
          /\ pointing'[v] = pointing[v] /\ exposure'[v] = exposure[v]
          /\ results'[v] = results[v]
    BY <2>1, <1>2, <1>3, <1>u DEF ExposureTo
  <2>9. Moves(current) => pointing'[current] = "completed"
    BY <1>b, <1>u
  <2> QED BY <1>b, <1>u, <1>4, <2>1, <2>3, <2>4, <2>5, <2>6, <2>7, <2>8, <2>9,
             AdvanceOwn
<1> QED BY <1>4, <1>5, <1>6, <1>7, <1>8, <1>9, <1>10, <1>11
        DEF Inv, LedgerInv, Evidence

LEMMA ReturnRecordedKeeps ==
  ASSUME Inv, ReturnRecorded, UNCHANGED setting
  PROVE  Inv'
<1>0. /\ current \in Works /\ Recorded(current) /\ current' = current + 1
      /\ UNCHANGED <<setting, results, pointing, exposure, calls, wire, taken,
                     mount, camera, reads, originals, faults>>
  BY DEF ReturnRecorded, ledger, rig, frames
<1>b. RowOK(current) /\ Typed
  BY <1>0 DEF Inv, LedgerInv, Evidence
<1>n. /\ wire["point"][current] \in Nat /\ taken["point"][current] \in Nat
      /\ wire["expose"][current] \in Nat /\ taken["expose"][current] \in Nat
      /\ current \in 1 .. Len(Plan) /\ current' \in 1 .. Len(Plan) + 1
  BY <1>0, <1>b, PlanFacts DEF Typed, RigTyped
<1>1. Typed'
  BY <1>0, <1>b, <1>n
     DEF Typed, SessionTyped, RowsTyped, CallsTyped, RigTyped, FramesTyped
<1>2. ProgressIsReal'
  <2> SUFFICES ASSUME NEW v \in Works, v < current'
               PROVE  /\ Images(v) => originals[v] # None /\ results[v] # "none"
                      /\ Plan[v] = "correct" => taken["point"][v] > 0
    BY <1>0 DEF ProgressIsReal, Images
  <2>1. CASE v = current
    BY <2>1, <1>0, <1>b DEF Recorded, RowOK, Images
  <2>2. CASE v # current
    <3>1. v < current
      BY <2>2, <1>0, <1>n, PlanFacts
    <3> QED BY <3>1 DEF Inv, LedgerInv, ProgressIsReal
  <2> QED BY <2>1, <2>2
<1>3. Evidence'
  BY <1>0 DEF Inv, LedgerInv, Evidence, RigOK, Inserted, CallOK, RowOK, Work,
              Busy, Doing, Sent, Moves, Images
<1>4. ReadInv'
  BY <1>0 DEF Inv, ReadInv, Exclusive, OneCall, Configured, Apart, CallLeads,
              ReadRow, Work, Doing
<1>5. OwnInv'
  <2> SUFFICES ASSUME Lone PROVE OwnInv'
    BY <1>0, LoneKeeps DEF OwnInv
  <2>1. Plan[current] = "correct" /\ pointing[current] = "completed"
    BY <1>0, <1>n DEF Recorded, Inv, OwnInv, RowOwn
  <2>2. taken["point"][current] > 0
    BY <2>1, <1>b DEF RowOK
  <2>3. exposure[current] = "none" /\ Sent("expose", current) = 0
    BY <2>1, <1>b DEF RowOK, Images
  <2>4. wire["point"][current] = 0
    BY <2>2, <1>b, <1>n DEF RowOK, Sent
  <2>5. wire["expose"][current] = 0 /\ ~(taken["expose"][current] > 0)
    BY <2>3, <1>n DEF Sent
  <2>6. ~camera.active
    BY <2>5 DEF Inv, OwnInv, CameraHolds
  <2>7. mount.at = Pointing(current) /\ ~mount.slewing
    BY <2>1, <1>0 DEF Inv, OwnInv, MountStands
  <2>8. \A j \in Calls : ~Busy(j)'
    <3>1. PICK k \in setting.calls : At(k, "idle")
      BY DEF ReturnRecorded
    <3>2. ASSUME NEW j \in Calls PROVE ~Busy(j)
      <4>1. CASE j = k
        BY <3>1, <4>1 DEF At, Busy
      <4>2. CASE j # k
        BY <4>2, LoneCall DEF Lone
      <4> QED BY <4>1, <4>2
    <3> QED BY <3>2, <1>0 DEF Busy
  <2>9. exposure'[current] \notin Early => taken["expose"][current] > 0
    BY <2>3, <1>0 DEF Early
  <2> QED BY <1>0, <1>1, <2>1, <2>4, <2>5, <2>6, <2>7, <2>8, <2>9, AdvanceOwn
<1> QED BY <1>1, <1>2, <1>3, <1>4, <1>5 DEF Inv, LedgerInv

LEMMA StopKeeps ==
  ASSUME Inv, Stop, UNCHANGED setting
  PROVE  Inv'
<1>0. /\ calls' = [k \in Calls |-> Idle] /\ faults' = faults + 1
      /\ UNCHANGED <<setting, current, results, pointing, exposure, wire, taken,
                     mount, camera, reads, originals>>
  BY DEF Stop, session, ledger, rig, frames
<1>1. \A k \in Calls : calls'[k].pc = "idle" /\ calls'[k].new = FALSE
  BY <1>0 DEF Idle
<1>2. Typed'
  <2>1. Idle \in CallRecords
    BY PlanFacts DEF Idle, CallRecords, Codes
  <2> QED BY <1>0, <2>1, FaultsTyped
          DEF Inv, LedgerInv, Typed, SessionTyped, RowsTyped, CallsTyped,
              RigTyped, FramesTyped
<1>3. ASSUME NEW k \in Calls
      PROVE  CallOK(k)' /\ CallLeads(k)' /\ CallOwn(k)'
  BY <1>1 DEF CallOK, CallLeads, CallOwn, Work, Busy, Doing, PointCodes,
              ImageCodes, ShotCodes, KeptCodes
<1>4. Evidence' /\ ProgressIsReal'
  <2>1. Inserted'
    BY <1>1 DEF Inserted
  <2>2. \A w \in Works : RowOK(w)'
    BY <1>0 DEF Inv, LedgerInv, Evidence, RowOK, Sent, Moves, Images
  <2>3. RigOK' /\ ProgressIsReal'
    BY <1>0 DEF Inv, LedgerInv, Evidence, RigOK, ProgressIsReal, Images
  <2> QED BY <1>3, <2>1, <2>2, <2>3 DEF Evidence
<1>5. ReadInv'
  <2>1. Apart'
    BY <1>1 DEF Apart, Doing
  <2> QED BY <1>0, <1>3, <2>1, LoneKeeps DEF Inv, ReadInv, ReadRow
<1>6. OwnInv'
  BY <1>0, <1>3, LoneKeeps
     DEF Inv, OwnInv, MountStands, CameraHolds, RowOwn, Moves, Pointing
<1> QED BY <1>2, <1>4, <1>5, <1>6 DEF Inv, LedgerInv

-----------------------------------------------------------------------------
(* The rig takes what was sent.                                             *)

\* Only the rig changed; what it took stays taken, and nothing is added.
RigOnly ==
  /\ UNCHANGED <<setting, current, pointing, exposure, calls, reads, originals,
                 results, faults>>
  /\ RigTyped'
  /\ \A kind \in {"point", "expose"}, w \in Works :
       Sent(kind, w)' <= Sent(kind, w) /\ taken[kind][w] <= taken'[kind][w]
  /\ camera.of # 0 => camera'.of # 0
  /\ \A w \in Works : taken'["expose"][w] > 0 => camera'.of # 0

LEMMA RigEvidence ==
  ASSUME Inv, RigOnly, RigOK'
  PROVE  LedgerInv' /\ ReadInv'
<1>0. /\ UNCHANGED <<setting, current, pointing, exposure, calls, reads,
                     originals, results, faults>>
      /\ Typed
  BY DEF RigOnly, Inv, LedgerInv
<1>n. ASSUME NEW kind \in {"point", "expose"}, NEW w \in Works
      PROVE  /\ wire'[kind][w] \in Nat /\ taken'[kind][w] \in Nat
             /\ taken[kind][w] \in Nat /\ Sent(kind, w)' \in Nat
             /\ Sent(kind, w) \in Nat
             /\ Sent(kind, w)' <= Sent(kind, w)
             /\ taken[kind][w] <= taken'[kind][w]
  <2>1. /\ wire \in [{"point", "expose"} -> [Works -> Nat]]
        /\ taken \in [{"point", "expose"} -> [Works -> Nat]]
        /\ wire' \in [{"point", "expose"} -> [Works -> Nat]]
        /\ taken' \in [{"point", "expose"} -> [Works -> Nat]]
    BY <1>0 DEF Typed, RigTyped, RigOnly
  <2>2. /\ wire'[kind][w] \in Nat /\ taken'[kind][w] \in Nat
        /\ wire[kind][w] \in Nat /\ taken[kind][w] \in Nat
    BY <2>1
  <2> QED BY <2>2 DEF Sent, RigOnly
<1>1. Typed'
  BY <1>0 DEF RigOnly, Typed, SessionTyped, RowsTyped, CallsTyped, FramesTyped
<1>2. ProgressIsReal'
  <2> SUFFICES ASSUME NEW v \in Works, v < current
               PROVE  /\ Images(v) => originals[v] # None /\ results[v] # "none"
                      /\ Plan[v] = "correct" => taken'["point"][v] > 0
    BY <1>0 DEF ProgressIsReal, Images
  <2> QED BY <1>n DEF Inv, LedgerInv, ProgressIsReal
<1>3. ASSUME NEW w \in Works PROVE RowOK(w)'
  <2>1. RowOK(w)
    BY DEF Inv, LedgerInv, Evidence
  <2>2. /\ Sent("point", w)' <= Sent("point", w)
        /\ Sent("expose", w)' <= Sent("expose", w)
        /\ Sent("point", w)' \in Nat /\ Sent("expose", w)' \in Nat
        /\ Sent("point", w) \in Nat /\ Sent("expose", w) \in Nat
        /\ taken["point"][w] > 0 => taken'["point"][w] > 0
    BY <1>n
  <2>3. /\ camera.of # 0 => camera'.of # 0
        /\ taken'["expose"][w] > 0 => camera'.of # 0
    BY DEF RigOnly
  <2> QED BY <2>1, <2>2, <2>3, <1>0 DEF RowOK, Moves, Images
<1>4. ASSUME NEW k \in Calls PROVE CallOK(k)'
  <2>1. CallOK(k)
    BY DEF Inv, LedgerInv, Evidence
  <2>2. camera.of # 0 => camera'.of # 0
    BY DEF RigOnly
  <2>3. calls[k].new => Work(k) \in Works
    BY <2>1 DEF CallOK
  <2>4. calls[k].new /\ Sent("point", Work(k)) = 0 => Sent("point", Work(k))' = 0
    <3>1. ASSUME Work(k) \in Works, Sent("point", Work(k)) = 0
          PROVE  Sent("point", Work(k))' = 0
      <4> PICK w : w = Work(k)
        OBVIOUS
      <4>1. Work(k)' = w
        BY <1>0 DEF Work
      <4>2. Sent("point", w)' = 0
        BY <1>n, <3>1
      <4> QED BY <4>1, <4>2 DEF Sent
    <3> QED BY <2>3, <3>1
  <2> QED BY <2>1, <2>2, <2>4, <1>0
          DEF CallOK, Work, Busy, Doing, Moves, Images
<1>5. Inserted'
  BY <1>0 DEF Inv, LedgerInv, Evidence, Inserted, Work
<1>6. ReadInv'
  BY <1>0 DEF Inv, ReadInv, Exclusive, OneCall, Configured, Apart, CallLeads,
              ReadRow, Work, Doing
<1> QED BY <1>1, <1>2, <1>3, <1>4, <1>5, <1>6 DEF LedgerInv, Evidence

LEMMA RigOwn ==
  ASSUME Inv, RigOnly,
         Lone => /\ MountStands' /\ CameraHolds'
                 /\ \A w \in Works : w # current =>
                      wire'["point"][w] <= wire["point"][w] /\
                      wire'["expose"][w] <= wire["expose"][w]
  PROVE  OwnInv'
<1>0. UNCHANGED <<setting, current, pointing, exposure, calls, reads, originals,
                  results, faults>>
  BY DEF RigOnly
<1> SUFFICES ASSUME Lone PROVE (MountStands /\ CameraHolds
                                /\ (\A j \in Calls : CallOwn(j))
                                /\ \A v \in Works : RowOwn(v))'
  BY <1>0, LoneKeeps DEF OwnInv
<1>n. ASSUME NEW w \in Works
      PROVE  /\ wire'["point"][w] \in Nat /\ wire'["expose"][w] \in Nat
             /\ taken["expose"][w] \in Nat /\ taken'["expose"][w] \in Nat
             /\ taken["expose"][w] <= taken'["expose"][w]
  <2>1. /\ taken \in [{"point", "expose"} -> [Works -> Nat]]
        /\ wire' \in [{"point", "expose"} -> [Works -> Nat]]
        /\ taken' \in [{"point", "expose"} -> [Works -> Nat]]
    BY DEF Inv, LedgerInv, Typed, RigTyped, RigOnly
  <2> QED BY <2>1 DEF RigOnly
<1>1. ASSUME NEW k \in Calls PROVE CallOwn(k)'
  <2>1. CallOwn(k) /\ CallOK(k)
    BY DEF Inv, OwnInv, LedgerInv, Evidence
  <2>2. Doing(k, ShotCodes) => current \in Works
    BY <2>1 DEF CallOwn, CallOK, Busy, Doing, ShotCodes
  <2>3. Doing(k, ShotCodes) => taken'["expose"][current] > 0
    BY <2>1, <2>2, <1>n DEF CallOwn
  <2> QED BY <2>1, <2>3, <1>0 DEF CallOwn, Work, Busy, Doing, Moves
<1>2. ASSUME NEW w \in Works PROVE RowOwn(w)'
  <2>1. RowOwn(w)
    BY DEF Inv, OwnInv
  <2>2. taken["expose"][w] > 0 => taken'["expose"][w] > 0
    BY <1>n
  <2>3. w # current => wire'["point"][w] = 0 /\ wire'["expose"][w] = 0
    BY <1>n, <2>1 DEF RowOwn
  <2> QED BY <2>1, <2>2, <2>3, <1>0 DEF RowOwn, Moves, Pointing
<1> QED BY <1>1, <1>2

LEMMA MountTakesKeeps ==
  ASSUME Inv, NEW w \in Works, MountTakes(w), UNCHANGED setting
  PROVE  Inv'
<1>0. /\ wire["point"][w] > 0
      /\ mount' = [at |-> w, slewing |-> TRUE]
      /\ UNCHANGED <<setting, current, pointing, exposure, calls, reads,
                     originals, results, faults, camera>>
  BY DEF MountTakes, session, ledger, frames
<1>t. /\ wire \in [{"point", "expose"} -> [Works -> Nat]]
      /\ taken \in [{"point", "expose"} -> [Works -> Nat]]
      /\ camera \in CameraRecords /\ RowOK(w)
  BY DEF Inv, LedgerInv, Typed, RigTyped, Evidence
<1>1. /\ wire' = [wire EXCEPT !["point"] = [wire["point"] EXCEPT ![w] = @ - 1]]
      /\ taken' = [taken EXCEPT !["point"] = [taken["point"] EXCEPT ![w] = @ + 1]]
  BY DEF MountTakes
<1>2. /\ wire' \in [{"point", "expose"} -> [Works -> Nat]]
      /\ taken' \in [{"point", "expose"} -> [Works -> Nat]]
      /\ wire'["point"][w] = wire["point"][w] - 1
      /\ taken'["point"][w] = taken["point"][w] + 1
      /\ wire'["expose"] = wire["expose"] /\ taken'["expose"] = taken["expose"]
      /\ \A v \in Works \ {w} : /\ wire'["point"][v] = wire["point"][v]
                               /\ taken'["point"][v] = taken["point"][v]
  BY <1>0, <1>1, <1>t
<1>n. /\ wire["point"][w] \in Nat /\ taken["point"][w] \in Nat
  BY <1>t
<1>3. RigTyped'
  BY <1>0, <1>2, <1>t, PlanFacts DEF RigTyped
<1>4. ASSUME NEW kind \in {"point", "expose"}, NEW v \in Works
      PROVE  Sent(kind, v)' <= Sent(kind, v) /\ taken[kind][v] <= taken'[kind][v]
  <2>0. wire[kind][v] \in Nat /\ taken[kind][v] \in Nat
    BY <1>t
  <2>1. CASE kind = "point" /\ v = w
    BY <2>1, <1>2, <1>n DEF Sent
  <2>2. CASE kind # "point" \/ v # w
    <3>1. wire'[kind][v] = wire[kind][v] /\ taken'[kind][v] = taken[kind][v]
      BY <2>2, <1>2
    <3> QED BY <3>1, <2>0 DEF Sent
  <2> QED BY <2>1, <2>2
<1>5. RigOnly
  <2>1. \A v \in Works : taken'["expose"][v] > 0 => camera'.of # 0
    BY <1>0, <1>2 DEF Inv, LedgerInv, Evidence, RowOK
  <2> QED BY <1>0, <1>3, <1>4, <2>1 DEF RigOnly
<1>6. RigOK'
  <2>1. mount'.at = w /\ taken'["point"][w] > 0
    BY <1>0, <1>2, <1>n
  <2> QED BY <2>1, <1>0 DEF RigOK, Inv, LedgerInv, Evidence
<1>7. ASSUME Lone
      PROVE  /\ MountStands' /\ CameraHolds'
             /\ \A v \in Works : v # current =>
                  wire'["point"][v] <= wire["point"][v] /\
                  wire'["expose"][v] <= wire["expose"][v]
  <2>1. w = current
    BY <1>7, <1>0 DEF Inv, OwnInv, RowOwn
  <2>2. pointing[w] # "none" /\ Moves(w) /\ ~(taken["point"][w] > 0)
    BY <1>t, <1>0, <1>n DEF RowOK, Sent
  <2>3. pointing[w] # "completed"
    BY <2>2, <1>t DEF RowOK
  <2>4. MountStands'
    BY <2>1, <2>2, <2>3, <1>0 DEF MountStands, Moves
  <2>5. CameraHolds'
    BY <1>7, <1>0, <1>2 DEF Inv, OwnInv, CameraHolds
  <2>6. \A v \in Works : wire["point"][v] \in Nat /\ wire["expose"][v] \in Nat
    BY <1>t
  <2> QED BY <2>1, <2>4, <2>5, <2>6, <1>2
<1> QED BY <1>5, <1>6, <1>7, RigEvidence, RigOwn DEF Inv

LEMMA CameraTakesKeeps ==
  ASSUME Inv, NEW w \in Works, CameraTakes(w), UNCHANGED setting
  PROVE  Inv'
<1>0. /\ wire["expose"][w] > 0
      /\ UNCHANGED <<setting, current, pointing, exposure, calls, reads,
                     originals, results, faults, mount>>
  BY DEF CameraTakes, session, ledger, frames
<1>t. /\ wire \in [{"point", "expose"} -> [Works -> Nat]]
      /\ taken \in [{"point", "expose"} -> [Works -> Nat]]
      /\ mount \in [at : 0 .. Len(Plan), slewing : BOOLEAN]
      /\ camera \in CameraRecords /\ RowOK(w) /\ RigOK
  BY DEF Inv, LedgerInv, Typed, RigTyped, Evidence
<1>n. wire["expose"][w] \in Nat /\ taken["expose"][w] \in Nat
  BY <1>t
<1>1. wire' = [wire EXCEPT !["expose"] = [wire["expose"] EXCEPT ![w] = @ - 1]]
  BY DEF CameraTakes
<1>2. /\ wire' \in [{"point", "expose"} -> [Works -> Nat]]
      /\ wire'["expose"][w] = wire["expose"][w] - 1
      /\ wire'["point"] = wire["point"]
      /\ \A v \in Works \ {w} : wire'["expose"][v] = wire["expose"][v]
  BY <1>0, <1>1, <1>t
<1>w. \A v \in Works : v # w =>
        wire'["point"][v] <= wire["point"][v] /\
        wire'["expose"][v] <= wire["expose"][v]
  BY <1>2, <1>t
<1>3. CASE camera.active
  <2>0. UNCHANGED <<taken, camera>>
    BY <1>3 DEF CameraTakes
  <2>1. ASSUME NEW kind \in {"point", "expose"}, NEW v \in Works
        PROVE  Sent(kind, v)' <= Sent(kind, v) /\ taken[kind][v] <= taken'[kind][v]
    <3>1. wire[kind][v] \in Nat /\ taken[kind][v] \in Nat
          /\ wire'[kind][v] \in Nat
      BY <1>t, <1>2
    <3>2. wire'[kind][v] <= wire[kind][v]
      BY <1>2, <3>1
    <3> QED BY <3>1, <3>2, <2>0 DEF Sent
  <2>2. RigOnly
    BY <1>0, <1>2, <1>t, <2>0, <2>1
       DEF RigOnly, RigTyped, Inv, LedgerInv, Evidence, RowOK
  <2>3. RigOK'
    BY <1>0, <1>t, <2>0 DEF RigOK
  <2>4. ASSUME Lone PROVE w = current /\ MountStands' /\ CameraHolds'
    <3>1. w = current
      BY <2>4, <1>0 DEF Inv, OwnInv, RowOwn
    <3>2. MountStands' /\ CameraHolds'
      BY <2>4, <1>0, <2>0 DEF Inv, OwnInv, MountStands, CameraHolds, Moves, Pointing
    <3> QED BY <3>1, <3>2
  <2> QED BY <1>w, <2>2, <2>3, <2>4, RigEvidence, RigOwn DEF Inv
<1>4. CASE ~camera.active
  <2>0. /\ taken' = [taken EXCEPT !["expose"] =
                      [taken["expose"] EXCEPT ![w] = @ + 1]]
        /\ camera' = Exposing(w)
    BY <1>4 DEF CameraTakes
  <2>1. /\ taken' \in [{"point", "expose"} -> [Works -> Nat]]
        /\ taken'["expose"][w] = taken["expose"][w] + 1
        /\ taken'["point"] = taken["point"]
        /\ \A v \in Works \ {w} : taken'["expose"][v] = taken["expose"][v]
    BY <2>0, <1>t
  <2>2. /\ camera' \in CameraRecords /\ camera'.of = w /\ camera'.of # 0
        /\ camera'.at = IF mount.slewing THEN 0 ELSE mount.at
    BY <2>0, <1>t, PlanFacts DEF Exposing, CameraRecords
  <2>3. ASSUME NEW kind \in {"point", "expose"}, NEW v \in Works
        PROVE  Sent(kind, v)' <= Sent(kind, v) /\ taken[kind][v] <= taken'[kind][v]
    <3>0. wire[kind][v] \in Nat /\ taken[kind][v] \in Nat
      BY <1>t
    <3>1. CASE kind = "expose" /\ v = w
      BY <3>1, <1>2, <2>1, <1>n DEF Sent
    <3>2. CASE kind # "expose" \/ v # w
      <4>1. wire'[kind][v] = wire[kind][v] /\ taken'[kind][v] = taken[kind][v]
        BY <3>2, <1>2, <2>1
      <4> QED BY <4>1, <3>0 DEF Sent
    <3> QED BY <3>1, <3>2
  <2>4. RigOnly
    BY <1>0, <1>2, <1>t, <2>1, <2>2, <2>3 DEF RigOnly, RigTyped
  <2>5. RigOK'
    BY <1>0, <1>t, <2>1, <2>2 DEF RigOK
  <2>6. ASSUME Lone PROVE w = current /\ MountStands' /\ CameraHolds'
    <3>1. w = current /\ RowOwn(w) /\ MountStands
      BY <2>6, <1>0 DEF Inv, OwnInv, RowOwn
    <3>2. exposure[w] # "none" /\ ~(taken["expose"][w] > 0)
      BY <1>t, <1>0, <1>n DEF RowOK, Sent
    <3>3. mount.at = Pointing(w) /\ ~mount.slewing
      BY <3>1, <3>2 DEF RowOwn, MountStands
    <3>4. exposure[w] \notin Late
      BY <3>1, <3>2 DEF RowOwn, Late, Early
    <3>5. MountStands'
      BY <3>1, <1>0 DEF MountStands, Moves, Pointing
    <3>6. CameraHolds'
      BY <3>1, <3>3, <3>4, <1>0, <1>n, <2>1, <2>2 DEF CameraHolds, Pointing, Moves
    <3> QED BY <3>1, <3>5, <3>6
  <2> QED BY <1>w, <2>4, <2>5, <2>6, RigEvidence, RigOwn DEF Inv
<1> QED BY <1>3, <1>4

\* The mount settles, an exposure ends, or an operator starts one.
LEMMA RigSettlesKeeps ==
  ASSUME Inv, UNCHANGED setting, MountSettles \/ CameraEnds \/ DirectExposure
  PROVE  Inv'
<1>0. UNCHANGED <<setting, current, pointing, exposure, calls, reads,
                  originals, results, faults, wire, taken>>
  BY DEF MountSettles, CameraEnds, DirectExposure, session, ledger, frames
<1>t. /\ wire \in [{"point", "expose"} -> [Works -> Nat]]
      /\ taken \in [{"point", "expose"} -> [Works -> Nat]]
      /\ mount \in [at : 0 .. Len(Plan), slewing : BOOLEAN]
      /\ camera \in CameraRecords /\ RigOK
  BY DEF Inv, LedgerInv, Typed, RigTyped, Evidence
<1>1. /\ mount' \in [at : 0 .. Len(Plan), slewing : BOOLEAN]
      /\ mount'.at = mount.at /\ (~mount.slewing => mount' = mount)
  BY <1>t DEF MountSettles, CameraEnds, DirectExposure
<1>2. /\ camera' \in CameraRecords
      /\ camera.of # 0 => camera'.of # 0
      /\ camera'.active => camera'.of # 0
      /\ Lone => /\ camera'.of = camera.of /\ camera'.at = camera.at
                 /\ camera'.active => camera.active
  <2>1. CASE MountSettles
    BY <2>1, <1>t DEF MountSettles, RigOK
  <2>2. CASE CameraEnds
    BY <2>2, <1>t DEF CameraEnds, CameraRecords
  <2>3. CASE DirectExposure
    BY <2>3, <1>t, PlanFacts
       DEF DirectExposure, Exposing, Foreign, CameraRecords, Lone
  <2> QED BY <2>1, <2>2, <2>3
<1>3. ASSUME NEW kind \in {"point", "expose"}, NEW w \in Works
      PROVE  Sent(kind, w)' <= Sent(kind, w) /\ taken[kind][w] <= taken'[kind][w]
             /\ wire'[kind][w] <= wire[kind][w]
  <2>1. wire[kind][w] \in Nat /\ taken[kind][w] \in Nat
    BY <1>t
  <2> QED BY <2>1, <1>0 DEF Sent
<1>4. RigOnly
  BY <1>0, <1>1, <1>2, <1>3, <1>t
     DEF RigOnly, RigTyped, Inv, LedgerInv, Evidence, RowOK
<1>5. RigOK'
  BY <1>0, <1>1, <1>2, <1>t DEF RigOK
<1>6. Lone => MountStands' /\ CameraHolds'
  BY <1>0, <1>1, <1>2
     DEF Inv, OwnInv, MountStands, CameraHolds, Moves, Pointing
<1> QED BY <1>3, <1>4, <1>5, <1>6, RigEvidence, RigOwn DEF Inv

-----------------------------------------------------------------------------
(* The invariant of every behaviour.                                        *)

LEMMA InitInv ==
  ASSUME Init
  PROVE  Inv
<1>0. /\ setting \in Settings /\ current = 1 /\ faults = 0
      /\ pointing = [w \in Works |-> "none"]
      /\ exposure = [w \in Works |-> "none"]
      /\ calls = [k \in Calls |-> Idle]
      /\ wire = [kind \in {"point", "expose"} |-> [w \in Works |-> 0]]
      /\ taken = wire
      /\ mount = [at |-> 0, slewing |-> FALSE]
      /\ camera = [active |-> FALSE, of |-> 0, at |-> 0]
      /\ reads = [w \in Works |-> 0]
      /\ originals = [w \in Works |-> None]
      /\ results = [w \in Works |-> "none"]
  BY DEF Init
<1>1. Typed
  <2>1. SessionTyped /\ RowsTyped /\ FramesTyped
    BY <1>0, PlanFacts
       DEF SessionTyped, RowsTyped, FramesTyped, Pointings, Exposures, None,
           FrameRecords
  <2>2. CallsTyped
    BY <1>0, PlanFacts DEF CallsTyped, CallRecords, Idle, Codes
  <2>3. RigTyped
    BY <1>0, PlanFacts DEF RigTyped, CameraRecords
  <2> QED BY <2>1, <2>2, <2>3 DEF Typed
<1>2. \A k \in Calls : calls[k].pc = "idle" /\ calls[k].new = FALSE
  BY <1>0 DEF Idle
<1>3. ASSUME NEW k \in Calls
      PROVE  CallOK(k) /\ CallLeads(k) /\ CallOwn(k)
  BY <1>2 DEF CallOK, CallLeads, CallOwn, Work, Busy, Doing, PointCodes,
              ImageCodes, ShotCodes, KeptCodes
<1>4. ASSUME NEW w \in Works
      PROVE  /\ wire["point"][w] = 0 /\ wire["expose"][w] = 0
             /\ taken["point"][w] = 0 /\ taken["expose"][w] = 0
             /\ pointing[w] = "none" /\ exposure[w] = "none"
             /\ reads[w] = 0 /\ originals[w] = None /\ results[w] = "none"
  BY <1>0
<1>5. ASSUME NEW w \in Works PROVE RowOK(w) /\ ReadRow(w)
  BY <1>4 DEF RowOK, ReadRow, Sent, Early
<1>6. ASSUME NEW w \in Works PROVE RowOwn(w)
  <2>1. originals[w].of = 0 /\ w # 0
    BY <1>4, PlanFacts DEF None
  <2> QED BY <1>4, <2>1 DEF RowOwn, Early, None
<1>7. RigOK /\ Inserted /\ Apart
  BY <1>0, <1>2, PlanFacts DEF RigOK, Inserted, Apart, Doing
<1>8. ProgressIsReal
  BY <1>0, PlanFacts DEF ProgressIsReal
<1>9. MountStands /\ CameraHolds
  <2>1. 1 \in Works /\ Moves(1)
    BY PlanFacts DEF Moves
  <2>2. pointing[1] = "none" /\ exposure[1] = "none"
        /\ ~(taken["expose"][1] > 0)
    BY <2>1, <1>4
  <2> QED BY <1>0, <2>1, <2>2 DEF MountStands, CameraHolds, Late
<1> QED BY <1>1, <1>3, <1>5, <1>6, <1>7, <1>8, <1>9
        DEF Inv, LedgerInv, Evidence, ReadInv, OwnInv

LEMMA StepKeeps ==
  ASSUME Inv, NEW k \in setting.calls, Step(k), UNCHANGED setting
  PROVE  Inv'
<1>1. CASE Aim(k)            BY <1>1, AimKeeps
<1>2. CASE Observe(k)        BY <1>2, ObserveKeeps
<1>3. CASE WriteReplies(k)   BY <1>3, WriteRepliesKeeps
<1>4. CASE PollPointing(k)   BY <1>4, PollKeeps
<1>5. CASE Expose(k)         BY <1>5, ExposeKeeps
<1>6. CASE StartReplies(k)   BY <1>6, StartRepliesKeeps
<1>7. CASE Watch(k)          BY <1>7, WatchKeeps
<1>8. CASE Seen(k)           BY <1>8, SeenKeeps
<1>9. CASE Await(k)          BY <1>9, AwaitKeeps
<1>10. CASE Read(k)          BY <1>10, ReadKeeps
<1>11. CASE Retain(k)        BY <1>11, RetainKeeps
<1>12. CASE Solve(k)         BY <1>12, SolveKeeps
<1>13. CASE SolverReturns(k) BY <1>13, SolverReturnsKeeps
<1> QED BY <1>1, <1>2, <1>3, <1>4, <1>5, <1>6, <1>7, <1>8, <1>9, <1>10, <1>11,
           <1>12, <1>13 DEF Step

LEMMA NextKeeps ==
  ASSUME Inv, Next
  PROVE  Inv'
<1>0. UNCHANGED setting
  BY DEF Next
<1>1. CASE \E k \in setting.calls : Begin(k) \/ Step(k) \/ Fails(k)
  BY <1>0, <1>1, BeginKeeps, StepKeeps, FailsKeeps
<1>2. CASE ReturnRecorded
  BY <1>0, <1>2, ReturnRecordedKeeps
<1>3. CASE Stop
  BY <1>0, <1>3, StopKeeps
<1>4. CASE Rig
  BY <1>0, <1>4, MountTakesKeeps, CameraTakesKeeps, RigSettlesKeeps DEF Rig
<1>5. CASE DirectExposure
  BY <1>0, <1>5, RigSettlesKeeps
<1> QED BY <1>1, <1>2, <1>3, <1>4, <1>5 DEF Next

LEMMA StutterKeeps ==
  ASSUME Inv, UNCHANGED <<setting, vars>>
  PROVE  Inv'
<1> USE DEF vars
<1>1. LedgerInv'
  BY DEF Inv, LedgerInv, Typed, SessionTyped, RowsTyped, CallsTyped, RigTyped,
         FramesTyped, ProgressIsReal, Evidence, RigOK, Inserted, CallOK, RowOK,
         Work, Busy, Doing, Sent, Moves, Images
<1>2. ReadInv'
  BY DEF Inv, ReadInv, Exclusive, OneCall, Configured, Apart, CallLeads,
         ReadRow, Work, Doing
<1>3. OwnInv'
  BY LoneKeeps
     DEF Inv, OwnInv, MountStands, CameraHolds, CallOwn, RowOwn, Work, Busy,
         Doing, Moves, Pointing
<1> QED BY <1>1, <1>2, <1>3 DEF Inv

(* In every state the ledger tells what was sent and done, an image is read *)
(* once, and it is its attempt's own, each under the setting it asks for.   *)
THEOREM Invariance == Spec => []Inv
<1>1. Init => Inv
  BY InitInv
<1>2. Inv /\ [Next]_<<setting, vars>> => Inv'
  BY NextKeeps, StutterKeeps
<1> QED BY <1>1, <1>2, PTL DEF Spec

LEMMA InvLedger ==
  ASSUME Inv
  PROVE  LedgerIsSound
<1>1. TypeOK
  BY DEF Inv, LedgerInv, Typed, SessionTyped, RowsTyped, CallsTyped, RigTyped,
         CallRecords, TypeOK
<1>2. NothingReplays
  BY DEF Inv, LedgerInv, Evidence, RowOK, Sent, NothingReplays
<1> QED BY <1>1, <1>2 DEF Inv, LedgerInv, LedgerIsSound

LEMMA InvImage ==
  ASSUME Inv
  PROVE  ImageIsTheAttempts
<1>1. OneCall \/ ~Configured => ReadOnce
  BY DEF Inv, ReadInv, Exclusive, ReadRow, ReadOnce
<1>2. Lone => ImageIsOwn /\ ImageShowsTarget
  BY DEF Inv, OwnInv, RowOwn, ImageIsOwn, ImageShowsTarget
<1> QED BY <1>1, <1>2 DEF ImageIsTheAttempts

(* However many calls meet, whatever fails, and wherever the origin stops:  *)
(* no slew or exposure of an attempt is sent a second time, and the session *)
(* goes on only with a retained and solved image, or a movement the mount   *)
(* took (claimWork, reconcileClaimedPointing, captureAndRetain).            *)
THEOREM LedgerStaysSound == Spec => []LedgerIsSound
<1>1. Inv => LedgerIsSound
  BY InvLedger
<1> QED BY <1>1, Invariance, PTL

(* An image is read from the camera once, unless two calls of the           *)
(* configured provider meet; with one call and no direct exposures the      *)
(* frame retained for an attempt is the exposure started for it, taken with *)
(* the mount settled where the last movement sent it (pointingProven,       *)
(* captureAndRetain, reconciledRetainedCapture).                            *)
THEOREM ImagesStayTheAttempts == Spec => []ImageIsTheAttempts
<1>1. Inv => ImageIsTheAttempts
  BY InvImage
<1> QED BY <1>1, Invariance, PTL

-----------------------------------------------------------------------------
(* The camera's calls, for any requests, bounds and scenarios.              *)

Starts == Camera!Starts
SimRecords ==
  [scenario : Selected, phase : {"idle", "exposing", "reading"},
   ready : BOOLEAN, exposure : 0 .. MaxStarts, cursor : Nat, logged : BOOLEAN]
Answers == {"none", "done", "error", "failure", "idle", "exposing", "reading"}
AskedRecords ==
  [at : {"none", "sent", "body", "file", "reading", "answered"},
   kind : {"none"} \cup Camera!Kinds, waits : BOOLEAN, did : BOOLEAN,
   of : 0 .. MaxStarts, answer : Answers, declared : 0 .. Limit + 1,
   rest : 0 .. Limit + 1, got : 0 .. Limit]
OutcomeRecords ==
  [tag : {"Acknowledged", "Rejected", "failed", "fits", "cameraRaw"}
           \cup Answers,
   kind : {"none"} \cup Camera!Kinds, did : BOOLEAN, of : 0 .. MaxStarts,
   size : 0 .. Limit]

\* A request has done what its answer says, and an image is of an exposure.
AskedFits(a) ==
  /\ a.waits => a.at # "none"
  /\ a.at \in {"none", "sent", "body", "file"} => ~a.did
  /\ a.at = "answered" =>
       (a.answer = "done" => a.did) /\ (a.answer = "error" => ~a.did)
  /\ a.at = "file" \/ (a.at = "reading" /\ a.declared <= Limit) =>
       a.of \in Starts
OutcomeFits(o) ==
  /\ o.tag = "Acknowledged" => o.did
  /\ o.tag = "Rejected" => ~o.did
  /\ o.tag \in {"fits", "cameraRaw"} => o.of \in Starts /\ o.size \in 1 .. Limit

BoundsTyped ==
  /\ Limit \in Nat /\ MaxStarts \in Nat /\ MaxSelects \in Nat
  /\ MaxRestarts \in Nat /\ MaxCuts \in Nat /\ IsFiniteSet(Requests)
CameraTyped ==
  /\ lone \in BOOLEAN /\ sim \in SimRecords
  /\ begun \in 0 .. MaxStarts /\ aborted \subseteq Starts
  /\ given \in [Starts -> [times : Nat, frame : Nat]]
  /\ selects \in Nat /\ restarts \in Nat /\ cuts \in Nat
AllAsked ==
  /\ asked \in [Requests -> AskedRecords]
  /\ \A r \in Requests : AskedFits(asked[r])
AllOutcomes ==
  /\ outcomes \in [Requests -> OutcomeRecords]
  /\ \A r \in Requests : OutcomeFits(outcomes[r])

Files == {r \in Requests : asked[r].at = "file"}
SimFits ==
  /\ sim.exposure = begun
  /\ sim.phase # "idle" \/ sim.ready => begun > 0
  /\ sim.phase # "idle" => ~sim.ready
Overruns ==
  sim.cursor + Cardinality(Files)
    < Camera!ScenarioFrames(sim.scenario) + Cardinality(Requests)

CameraSound ==
  /\ BoundsTyped /\ CameraTyped /\ AllAsked /\ AllOutcomes /\ SimFits /\ Overruns

\* The camera's module counts as this one does.
LEMMA SameFinite == \A S : Camera!IsFiniteSet(S) <=> IsFiniteSet(S)
BY DEF Camera!IsFiniteSet, IsFiniteSet
LEMMA SameCount == \A S : Camera!Cardinality(S) = Cardinality(S)
BY DEF Camera!Cardinality, Cardinality

LEMMA FramesArePositive ==
  \A s : Camera!ScenarioFrames(s) \in Nat /\ Camera!ScenarioFrames(s) >= 1
BY DEF Camera!ScenarioFrames

LEMMA AskedMoves ==
  ASSUME AllAsked, NEW r \in Requests, NEW a \in AskedRecords, AskedFits(a),
         asked' = [asked EXCEPT ![r] = a]
  PROVE  AllAsked'
<1>1. asked' \in [Requests -> AskedRecords]
  BY DEF AllAsked
<1>2. \A q \in Requests : asked'[q] = IF q = r THEN a ELSE asked[q]
  BY DEF AllAsked
<1> QED BY <1>1, <1>2 DEF AllAsked

LEMMA OutcomeMoves ==
  ASSUME AllOutcomes, NEW r \in Requests, NEW o \in OutcomeRecords,
         OutcomeFits(o), outcomes' = [outcomes EXCEPT ![r] = o]
  PROVE  AllOutcomes'
<1>1. outcomes' \in [Requests -> OutcomeRecords]
  BY DEF AllOutcomes
<1>2. \A q \in Requests : outcomes'[q] = IF q = r THEN o ELSE outcomes[q]
  BY DEF AllOutcomes
<1> QED BY <1>1, <1>2 DEF AllOutcomes

\* The requests with a file in hand, when one request moves on.
LEMMA FilesCounted ==
  ASSUME IsFiniteSet(Requests)
  PROVE  /\ Cardinality(Requests) \in Nat
         /\ Files \subseteq Requests /\ IsFiniteSet(Files)
         /\ Cardinality(Files) \in Nat
         /\ Cardinality(Files) <= Cardinality(Requests)
<1>1. Files \subseteq Requests
  BY DEF Files
<1>2. IsFiniteSet(Files) /\ Cardinality(Files) <= Cardinality(Requests)
  BY <1>1, FS_Subset
<1> QED BY <1>1, <1>2, FS_CardinalityType

LEMMA FilesMove ==
  ASSUME IsFiniteSet(Requests), asked \in [Requests -> AskedRecords],
         NEW r \in Requests, NEW a \in AskedRecords,
         asked' = [asked EXCEPT ![r] = a]
  PROVE  /\ Cardinality(Files') \in Nat
         /\ Cardinality(Files') <= Cardinality(Requests)
         /\ a.at # "file" \/ asked[r].at = "file" =>
              Cardinality(Files') <= Cardinality(Files)
         /\ a.at # "file" /\ asked[r].at = "file" =>
              Cardinality(Files') = Cardinality(Files) - 1
<1>1. \A q \in Requests : asked'[q] = IF q = r THEN a ELSE asked[q]
  OBVIOUS
<1>2. /\ IsFiniteSet(Files) /\ Files' \subseteq Requests
      /\ Cardinality(Files) \in Nat
  BY FilesCounted DEF Files
<1>3. /\ IsFiniteSet(Files') /\ Cardinality(Files') <= Cardinality(Requests)
      /\ Cardinality(Files') \in Nat
  BY <1>2, FS_Subset, FS_CardinalityType
<1>4. ASSUME a.at # "file" \/ asked[r].at = "file"
      PROVE  Cardinality(Files') <= Cardinality(Files)
  <2>1. Files' \subseteq Files
    BY <1>1, <1>4 DEF Files
  <2> QED BY <2>1, <1>2, FS_Subset
<1>5. ASSUME a.at # "file", asked[r].at = "file"
      PROVE  Cardinality(Files') = Cardinality(Files) - 1
  <2>1. Files' = Files \ {r} /\ r \in Files
    BY <1>1, <1>5 DEF Files
  <2> QED BY <2>1, <1>2, FS_RemoveElement
<1> QED BY <1>3, <1>4, <1>5

LEMMA CameraStarts == Camera!AlpacaCameraOK /\ Camera!Init => CameraSound
<1> SUFFICES ASSUME Camera!AlpacaCameraOK, Camera!Init PROVE CameraSound
  OBVIOUS
<1>1. BoundsTyped
  BY SameFinite DEF Camera!AlpacaCameraOK, BoundsTyped
<1>2. CameraTyped /\ SimFits /\ sim.cursor = 0
  <2>1. 0 \in 0 .. MaxStarts /\ 0 \in Nat
    BY <1>1 DEF BoundsTyped
  <2>2. PICK s \in Selected : sim = Camera!Fresh(s)
    BY DEF Camera!Init
  <2>3. sim \in SimRecords /\ sim.exposure = 0 /\ sim.phase = "idle"
        /\ ~sim.ready /\ sim.cursor = 0
    BY <2>1, <2>2 DEF Camera!Fresh, SimRecords
  <2>4. given \in [Starts -> [times : Nat, frame : Nat]]
    BY DEF Camera!Init, Starts
  <2> QED BY <2>1, <2>3, <2>4 DEF Camera!Init, CameraTyped, SimFits
<1>3. AllAsked
  <2>1. Camera!Unasked \in AskedRecords /\ AskedFits(Camera!Unasked)
        /\ Camera!Unasked.at = "none"
    BY <1>1 DEF Camera!Unasked, AskedRecords, AskedFits, BoundsTyped, Answers
  <2> QED BY <2>1 DEF Camera!Init, AllAsked
<1>4. AllOutcomes
  <2>1. Camera!None \in OutcomeRecords /\ OutcomeFits(Camera!None)
    BY <1>1 DEF Camera!None, OutcomeRecords, OutcomeFits, BoundsTyped, Answers
  <2> QED BY <2>1 DEF Camera!Init, AllOutcomes
<1>5. Overruns
  <2>1. Files = {}
    BY DEF Camera!Init, Files, Camera!Unasked
  <2>2. Cardinality(Files) = 0 /\ Cardinality(Requests) \in Nat
    BY <1>1, <2>1, FS_EmptySet, FilesCounted DEF BoundsTyped
  <2> QED BY <1>2, <2>2, FramesArePositive DEF Overruns
<1> QED BY <1>1, <1>2, <1>3, <1>4, <1>5 DEF CameraSound

-----------------------------------------------------------------------------
\* What a step that is about one request leaves to show.
LEMMA CameraMoves ==
  ASSUME CameraSound, NEW r \in Requests, NEW a \in AskedRecords, AskedFits(a),
         asked' = [asked EXCEPT ![r] = a], a.at # "file",
         UNCHANGED <<Camera!device, Camera!hands>>, AllOutcomes'
  PROVE  CameraSound'
<1>1. AllAsked'
  BY AskedMoves DEF CameraSound
<1>2. UNCHANGED <<lone, sim, begun, given, aborted, selects, restarts, cuts>>
  BY DEF Camera!device, Camera!hands
<1>3. CameraTyped' /\ SimFits' /\ BoundsTyped
  BY <1>2 DEF CameraSound, CameraTyped, SimFits
<1>4. Overruns'
  <2>1. /\ Cardinality(Files') \in Nat /\ Cardinality(Files) \in Nat
        /\ Cardinality(Files') <= Cardinality(Files)
        /\ Cardinality(Requests) \in Nat
    BY FilesMove, FilesCounted DEF CameraSound, BoundsTyped, AllAsked
  <2>2. sim.cursor \in Nat /\ Camera!ScenarioFrames(sim.scenario) \in Nat
    BY FramesArePositive DEF CameraSound, CameraTyped, SimRecords
  <2> QED BY <1>2, <2>1, <2>2 DEF CameraSound, Overruns
<1> QED BY <1>1, <1>3, <1>4 DEF CameraSound, BoundsTyped

LEMMA AskedHas ==
  ASSUME CameraSound, NEW r \in Requests
  PROVE  /\ asked[r] \in AskedRecords /\ AskedFits(asked[r])
         /\ outcomes[r] \in OutcomeRecords /\ OutcomeFits(outcomes[r])
BY DEF CameraSound, AllAsked, AllOutcomes

LEMMA NoOutcome ==
  ASSUME BoundsTyped, NEW tag \in {"none", "failed"},
         NEW kind \in {"none"} \cup Camera!Kinds
  PROVE  LET o == [Camera!None EXCEPT !.tag = tag, !.kind = kind]
         IN o \in OutcomeRecords /\ OutcomeFits(o)
<1> DEFINE o == [Camera!None EXCEPT !.tag = tag, !.kind = kind]
<1>1. Camera!None \in OutcomeRecords
  BY DEF Camera!None, OutcomeRecords, BoundsTyped, Answers
<1>2. o \in OutcomeRecords
  BY <1>1 DEF OutcomeRecords, Answers
<1>3. o.tag = tag
  BY <1>1 DEF OutcomeRecords
<1> QED BY <1>2, <1>3 DEF OutcomeFits

LEMMA CameraCalls ==
  ASSUME CameraSound, NEW r \in Requests, NEW kind \in Camera!Kinds,
         Camera!Call(r, kind)
  PROVE  CameraSound'
<1> DEFINE a == [Camera!Unasked EXCEPT !.at = "sent", !.waits = TRUE,
                                       !.kind = kind]
           o == Camera!None
<1>1. a \in AskedRecords /\ AskedFits(a) /\ a.at # "file"
  <2>1. Camera!Unasked \in AskedRecords /\ ~Camera!Unasked.did
    BY DEF Camera!Unasked, AskedRecords, CameraSound, BoundsTyped, Answers
  <2>2. a \in AskedRecords
    BY <2>1 DEF AskedRecords
  <2>3. a.at = "sent" /\ ~a.did
    BY <2>1 DEF AskedRecords
  <2> HIDE DEF a
  <2> QED BY <2>2, <2>3 DEF AskedFits
<1>2. o \in OutcomeRecords /\ OutcomeFits(o)
  BY DEF Camera!None, OutcomeRecords, OutcomeFits, CameraSound, BoundsTyped,
    Answers
<1>3. /\ asked' = [asked EXCEPT ![r] = a]
      /\ outcomes' = [outcomes EXCEPT ![r] = o]
      /\ UNCHANGED <<Camera!device, Camera!hands>>
  BY DEF Camera!Call
<1> HIDE DEF a, o
<1>4. AllOutcomes'
  BY <1>2, <1>3, OutcomeMoves DEF CameraSound
<1> QED BY <1>1, <1>3, <1>4, CameraMoves

LEMMA CameraSettles ==
  ASSUME CameraSound, NEW r \in Requests,
         NEW tag \in {"Acknowledged", "Rejected", "failed", "fits", "cameraRaw"}
                       \cup Answers,
         NEW size \in 0 .. Limit, Camera!Settle(r, tag, size),
         tag = "Acknowledged" => asked[r].did,
         tag = "Rejected" => ~asked[r].did,
         tag \in {"fits", "cameraRaw"} =>
           asked[r].of \in Starts /\ size \in 1 .. Limit
  PROVE  CameraSound'
<1> DEFINE a == Camera!Unasked
           o == [tag |-> tag, kind |-> asked[r].kind, did |-> asked[r].did,
                 of |-> asked[r].of, size |-> size]
<1>1. a \in AskedRecords /\ AskedFits(a) /\ a.at # "file"
  BY DEF Camera!Unasked, AskedRecords, AskedFits, CameraSound, BoundsTyped,
    Answers
<1>2. o \in OutcomeRecords /\ OutcomeFits(o)
  BY AskedHas DEF AskedRecords, OutcomeRecords, OutcomeFits
<1>3. /\ asked' = [asked EXCEPT ![r] = a]
      /\ outcomes' = [outcomes EXCEPT ![r] = o] \/ outcomes' = outcomes
      /\ UNCHANGED <<Camera!device, Camera!hands>>
  BY DEF Camera!Settle
<1> HIDE DEF a, o
<1>4. AllOutcomes'
  BY <1>2, <1>3, OutcomeMoves DEF CameraSound, AllOutcomes
<1> QED BY <1>1, <1>3, <1>4, CameraMoves

LEMMA CameraReceives ==
  ASSUME CameraSound, NEW r \in Requests, Camera!Receive(r)
  PROVE  CameraSound'
<1> DEFINE command == asked[r].kind \in {"start", "abort"}
           tag == CASE command /\ asked[r].answer = "done"  -> "Acknowledged"
                    [] command /\ asked[r].answer = "error" -> "Rejected"
                    [] ~command /\ asked[r].answer = "error" -> "failed"
                    [] asked[r].answer = "failure" -> "failed"
                    [] OTHER -> asked[r].answer
<1>1. asked[r].answer \in Answers /\ asked[r].at = "answered"
  BY AskedHas DEF AskedRecords, Camera!Receive, Camera!At
<1>2. /\ tag = "Acknowledged" => asked[r].answer = "done"
      /\ tag = "Rejected" => asked[r].answer = "error"
      /\ tag \notin {"fits", "cameraRaw"}
      /\ tag \in {"Acknowledged", "Rejected", "failed"} \cup Answers
  <2>1. CASE command /\ asked[r].answer = "done"
    BY <2>1
  <2>2. CASE command /\ asked[r].answer = "error"
    BY <2>2
  <2>3. CASE ~command /\ asked[r].answer \in {"error", "failure"}
    BY <2>3
  <2>4. CASE command /\ asked[r].answer = "failure"
    BY <2>4
  <2>5. CASE /\ ~command \/ asked[r].answer # "done"
             /\ asked[r].answer \notin {"error", "failure"}
    BY <1>1, <2>5 DEF Answers
  <2> QED BY <1>1, <2>1, <2>2, <2>3, <2>4, <2>5
<1>3. Camera!Settle(r, tag, 0) /\ 0 \in 0 .. Limit
  BY DEF Camera!Receive, CameraSound, BoundsTyped
<1> HIDE DEF tag
<1>4. /\ tag = "Acknowledged" => asked[r].did
      /\ tag = "Rejected" => ~asked[r].did
  BY <1>1, <1>2, AskedHas DEF AskedFits
<1> QED BY <1>2, <1>3, <1>4, CameraSettles

LEMMA CameraReadEnds ==
  ASSUME CameraSound, NEW r \in Requests, Camera!ReadEnds(r)
  PROVE  CameraSound'
<1>1. PICK format \in IF Camera!Whole(r) THEN Camera!Formats ELSE {"failed"} :
        Camera!Settle(r, format, asked[r].got)
  BY DEF Camera!ReadEnds
<1>2. /\ asked[r].at = "reading" /\ asked[r].got \in 0 .. Limit
      /\ asked[r].declared <= Limit => asked[r].of \in Starts
  BY AskedHas DEF AskedRecords, AskedFits, Camera!ReadEnds, Camera!At
<1>3. /\ format \in {"fits", "cameraRaw", "failed"}
      /\ format # "failed" => Camera!Whole(r)
  <2>1. Camera!Formats \subseteq {"fits", "cameraRaw", "failed"}
    BY DEF Camera!Formats, Camera!Format
  <2> QED BY <1>1, <2>1
<1>4. format \in {"fits", "cameraRaw"} =>
        asked[r].of \in Starts /\ asked[r].got \in 1 .. Limit
  BY <1>2, <1>3 DEF Camera!Whole, CameraSound, BoundsTyped
<1> QED BY <1>1, <1>2, <1>3, <1>4, CameraSettles

LEMMA CameraChunks ==
  ASSUME CameraSound, NEW r \in Requests, Camera!Chunk(r)
  PROVE  CameraSound'
<1> DEFINE a == [asked[r] EXCEPT !.rest = @ - 1, !.got = @ + 1]
<1>1. asked[r] \in AskedRecords /\ AskedFits(asked[r]) /\ Limit \in Nat
  BY AskedHas DEF CameraSound, BoundsTyped
<1>2. /\ asked[r].at = "reading" /\ asked[r].declared <= Limit
      /\ asked[r].rest > 0 /\ asked[r].got < Camera!Bound(r)
      /\ asked' = [asked EXCEPT ![r].rest = @ - 1, ![r].got = @ + 1]
  BY DEF Camera!Chunk, Camera!At
<1>3. /\ asked[r].declared \in 0 .. Limit + 1 /\ asked[r].got \in 0 .. Limit
      /\ asked[r].rest \in 0 .. Limit + 1
  BY <1>1 DEF AskedRecords
<1>4. asked[r].got + 1 \in 0 .. Limit /\ asked[r].rest - 1 \in 0 .. Limit + 1
  BY <1>1, <1>2, <1>3 DEF Camera!Bound
<1>5. a \in AskedRecords /\ a.at = "reading" /\ AskedFits(a)
  BY <1>1, <1>2, <1>4 DEF AskedRecords, AskedFits
<1>6. asked' = [asked EXCEPT ![r] = a]
  BY <1>2 DEF CameraSound, AllAsked
<1>7. UNCHANGED <<Camera!device, Camera!hands>> /\ AllOutcomes'
  BY DEF Camera!Chunk, CameraSound, AllOutcomes
<1> HIDE DEF a
<1> QED BY <1>5, <1>6, <1>7, CameraMoves

LEMMA CameraCut ==
  ASSUME CameraSound, NEW r \in Requests, Camera!Cut(r)
  PROVE  CameraSound'
<1> DEFINE a == [asked[r] EXCEPT !.waits = FALSE]
           o == [Camera!None EXCEPT !.tag = "failed", !.kind = asked[r].kind]
<1>1. asked[r] \in AskedRecords /\ AskedFits(asked[r])
  BY AskedHas
<1>2. a \in AskedRecords /\ AskedFits(a) /\ a.at = asked[r].at
  BY <1>1 DEF AskedRecords, AskedFits
<1>3. asked[r].kind \in {"none"} \cup Camera!Kinds
  BY <1>1 DEF AskedRecords
<1>4. o \in OutcomeRecords /\ OutcomeFits(o)
  BY <1>3, NoOutcome DEF CameraSound
<1>5. asked' = [asked EXCEPT ![r] = a] /\ outcomes' = [outcomes EXCEPT ![r] = o]
  BY DEF Camera!Cut, CameraSound, AllAsked
<1>6. /\ UNCHANGED <<lone, sim, begun, given, aborted, selects, restarts>>
      /\ cuts' = cuts + 1
  BY DEF Camera!Cut, Camera!device
<1> HIDE DEF a, o
<1>7. AllOutcomes' /\ AllAsked'
  BY <1>2, <1>4, <1>5, AskedMoves, OutcomeMoves DEF CameraSound
<1>8. CameraTyped' /\ SimFits' /\ BoundsTyped
  BY <1>6 DEF CameraSound, CameraTyped, SimFits
<1>9. Overruns'
  <2>1. Files' = Files
    <3>1. \A q \in Requests : asked'[q].at = asked[q].at
      BY <1>2, <1>5 DEF CameraSound, AllAsked
    <3> QED BY <3>1 DEF Files
  <2> QED BY <2>1, <1>6 DEF CameraSound, Overruns
<1> QED BY <1>7, <1>8, <1>9 DEF CameraSound, BoundsTyped

-----------------------------------------------------------------------------
\* The simulator takes a request: it answers, waits for a body or for a file,
\* aborts, or sends too much.
LEMMA TakenAnswered ==
  ASSUME CameraSound, NEW r \in Requests, asked[r].at = "sent",
         NEW answer \in Answers \ {"done"}, Camera!Answer(r, answer),
         UNCHANGED <<Camera!device, outcomes, Camera!hands>>
  PROVE  CameraSound'
<1> DEFINE a == [asked[r] EXCEPT !.at = "answered", !.answer = answer]
<1>1. asked[r] \in AskedRecords /\ AskedFits(asked[r])
  BY AskedHas
<1>2. a \in AskedRecords
  BY <1>1 DEF AskedRecords
<1>3. AskedFits(a) /\ a.at # "file"
  BY <1>1 DEF AskedRecords, AskedFits
<1>4. asked' = [asked EXCEPT ![r] = a]
  BY DEF Camera!Answer, CameraSound, AllAsked
<1>5. AllOutcomes'
  BY DEF CameraSound, AllOutcomes
<1> HIDE DEF a
<1> QED BY <1>2, <1>3, <1>4, <1>5, CameraMoves

LEMMA TakenAtBody ==
  ASSUME CameraSound, NEW r \in Requests, asked[r].at = "sent",
         Camera!Wait(r, "body"), UNCHANGED <<outcomes, Camera!hands>>
  PROVE  CameraSound'
<1> DEFINE a == [asked[r] EXCEPT !.at = "body", !.of = sim.exposure]
<1>1. asked[r] \in AskedRecords /\ AskedFits(asked[r])
      /\ sim.exposure \in 0 .. MaxStarts
  BY AskedHas DEF CameraSound, CameraTyped, SimRecords
<1>2. a \in AskedRecords
  BY <1>1 DEF AskedRecords
<1>3. AskedFits(a) /\ a.at # "file"
  BY <1>1 DEF AskedRecords, AskedFits
<1>4. asked' = [asked EXCEPT ![r] = a] /\ UNCHANGED Camera!device
  BY DEF Camera!Wait, CameraSound, AllAsked
<1>5. AllOutcomes'
  BY DEF CameraSound, AllOutcomes
<1> HIDE DEF a
<1> QED BY <1>2, <1>3, <1>4, <1>5, CameraMoves

LEMMA TakenOversize ==
  ASSUME CameraSound, NEW r \in Requests, asked[r].at = "sent",
         asked' = [asked EXCEPT ![r].at = "reading", ![r].declared = Limit + 1],
         UNCHANGED <<Camera!device, outcomes, Camera!hands>>
  PROVE  CameraSound'
<1> DEFINE a == [asked[r] EXCEPT !.at = "reading", !.declared = Limit + 1]
<1>1. asked[r] \in AskedRecords /\ AskedFits(asked[r])
      /\ Limit \in Nat /\ Limit + 1 \in 0 .. Limit + 1
  BY AskedHas DEF CameraSound, BoundsTyped
<1>2. a \in AskedRecords
  BY <1>1 DEF AskedRecords
<1>3. AskedFits(a) /\ a.at # "file"
  BY <1>1 DEF AskedRecords, AskedFits
<1>4. asked' = [asked EXCEPT ![r] = a]
  BY DEF CameraSound, AllAsked
<1>5. AllOutcomes'
  BY DEF CameraSound, AllOutcomes
<1> HIDE DEF a
<1> QED BY <1>2, <1>3, <1>4, <1>5, CameraMoves

LEMMA TakenAtFile ==
  ASSUME CameraSound, NEW r \in Requests, asked[r].at = "sent",
         sim.ready, sim.cursor < Camera!ScenarioFrames(sim.scenario),
         Camera!Wait(r, "file"), UNCHANGED <<outcomes, Camera!hands>>
  PROVE  CameraSound'
<1> DEFINE a == [asked[r] EXCEPT !.at = "file", !.of = sim.exposure]
<1>1. asked[r] \in AskedRecords /\ AskedFits(asked[r])
      /\ sim.exposure \in 0 .. MaxStarts
  BY AskedHas DEF CameraSound, CameraTyped, SimRecords
<1>2. sim.exposure \in Starts
  BY <1>1 DEF CameraSound, SimFits, CameraTyped, BoundsTyped, Starts,
    Camera!Starts
<1>3. a \in AskedRecords
  BY <1>1 DEF AskedRecords
<1>4. AskedFits(a)
  BY <1>1, <1>2 DEF AskedRecords, AskedFits
<1>5. asked' = [asked EXCEPT ![r] = a] /\ UNCHANGED Camera!device
  BY DEF Camera!Wait, CameraSound, AllAsked
<1> HIDE DEF a
<1>6. AllAsked'
  BY <1>3, <1>4, <1>5, AskedMoves DEF CameraSound
<1>7. UNCHANGED <<lone, sim, begun, given, aborted, selects, restarts, cuts>>
  BY <1>5 DEF Camera!device, Camera!hands
<1>8. CameraTyped' /\ SimFits' /\ BoundsTyped /\ AllOutcomes'
  BY <1>7 DEF CameraSound, CameraTyped, SimFits, AllOutcomes
<1>9. Overruns'
  <2>1. /\ Cardinality(Files') \in Nat
        /\ Cardinality(Files') <= Cardinality(Requests)
        /\ Cardinality(Requests) \in Nat
    BY <1>3, <1>5, FilesMove, FilesCounted
      DEF CameraSound, BoundsTyped, AllAsked
  <2>2. sim.cursor \in Nat /\ Camera!ScenarioFrames(sim.scenario) \in Nat
    BY FramesArePositive DEF CameraSound, CameraTyped, SimRecords
  <2> QED BY <1>7, <2>1, <2>2 DEF Overruns
<1> QED BY <1>6, <1>8, <1>9 DEF CameraSound, BoundsTyped

\* The camera changes, and no file is in hand that was not before.
LEMMA CameraActs ==
  ASSUME CameraSound, AllAsked', AllOutcomes', CameraTyped', SimFits',
         Files' \subseteq Files,
         \/ sim'.scenario = sim.scenario /\ sim'.cursor = sim.cursor
         \/ sim'.cursor = 0
  PROVE  CameraSound'
<1>1. /\ Cardinality(Files') \in Nat /\ Cardinality(Files) \in Nat
      /\ Cardinality(Files') <= Cardinality(Files)
      /\ Cardinality(Requests) \in Nat
      /\ Cardinality(Files) <= Cardinality(Requests)
  BY FilesCounted, FS_Subset, FS_CardinalityType DEF CameraSound, BoundsTyped
<1>2. /\ sim.cursor \in Nat
      /\ Camera!ScenarioFrames(sim.scenario) \in Nat
      /\ Camera!ScenarioFrames(sim'.scenario) \in Nat
      /\ Camera!ScenarioFrames(sim'.scenario) >= 1
  BY FramesArePositive DEF CameraSound, CameraTyped, SimRecords
<1>3. Overruns'
  BY <1>1, <1>2 DEF CameraSound, Overruns
<1> QED BY <1>3 DEF CameraSound, BoundsTyped

LEMMA TakenAbort ==
  ASSUME CameraSound, NEW r \in Requests, asked[r].at = "sent",
         Camera!TakeAbort(r), sim.phase # "idle",
         UNCHANGED <<outcomes, Camera!hands>>
  PROVE  CameraSound'
<1> DEFINE a == [asked[r] EXCEPT !.at = "answered", !.answer = "done",
                                 !.did = TRUE]
<1>1. asked[r] \in AskedRecords /\ AskedFits(asked[r])
  BY AskedHas
<1>2. a \in AskedRecords
  BY <1>1 DEF AskedRecords, Answers
<1>3. AskedFits(a) /\ a.at = "answered"
  BY <1>1 DEF AskedRecords, AskedFits
<1>4. /\ sim' = Camera!Cleared /\ aborted' = aborted \cup {sim.exposure}
      /\ asked' = [asked EXCEPT ![r] = a]
      /\ UNCHANGED <<begun, given, lone, selects, restarts, cuts>>
  BY DEF Camera!TakeAbort, Camera!Did, Camera!hands, CameraSound, AllAsked
<1> HIDE DEF a
<1>5. AllAsked' /\ AllOutcomes'
  BY <1>2, <1>3, <1>4, AskedMoves DEF CameraSound, AllOutcomes
<1>6. /\ sim' \in SimRecords /\ sim'.exposure = sim.exposure
      /\ sim'.cursor = sim.cursor /\ sim'.scenario = sim.scenario
      /\ sim'.phase = "idle" /\ ~sim'.ready
  BY <1>4 DEF CameraSound, CameraTyped, SimRecords, Camera!Cleared
<1>7. sim.exposure \in Starts
  BY DEF CameraSound, SimFits, CameraTyped, BoundsTyped, Starts, Camera!Starts
<1>8. CameraTyped' /\ SimFits'
  BY <1>4, <1>6, <1>7 DEF CameraSound, CameraTyped, SimFits
<1>9. Files' \subseteq Files
  BY <1>3, <1>4 DEF Files, CameraSound, AllAsked
<1> QED BY <1>5, <1>6, <1>8, <1>9, CameraActs

LEMMA SimulatorTakes ==
  ASSUME CameraSound, NEW r \in Requests, Camera!Take(r)
  PROVE  CameraSound'
<1>1. asked[r].at = "sent" /\ UNCHANGED <<outcomes, Camera!hands>>
  BY DEF Camera!Take, Camera!At
<1>2. ASSUME Camera!Refuse(r) PROVE CameraSound'
  BY <1>1, <1>2, TakenAnswered DEF Camera!Refuse, Answers
<1>3. CASE Camera!TakeStart(r)
  BY <1>1, <1>2, <1>3, TakenAtBody DEF Camera!TakeStart
<1>4. CASE Camera!TakeAbort(r)
  BY <1>1, <1>2, <1>4, TakenAbort DEF Camera!TakeAbort
<1>5. CASE Camera!TakeState(r)
  <2>1. sim.phase \in Answers \ {"done"}
    BY DEF CameraSound, CameraTyped, SimRecords, Answers
  <2> QED BY <1>1, <1>2, <1>5, <2>1, TakenAnswered DEF Camera!TakeState
<1>6. CASE Camera!TakeImage(r)
  <2>1. CASE sim.scenario = "retrieval-failure"
    BY <1>1, <1>6, <2>1, TakenAnswered DEF Camera!TakeImage, Answers
  <2>2. CASE sim.scenario = "retrieval-oversize"
    BY <1>1, <1>6, <2>2, TakenOversize DEF Camera!TakeImage
  <2>3. CASE sim.scenario \notin {"retrieval-failure", "retrieval-oversize"}
    <3>1. IF ~sim.ready
              \/ sim.cursor >= Camera!ScenarioFrames(sim.scenario)
          THEN Camera!Refuse(r) ELSE Camera!Wait(r, "file")
      BY <1>6, <2>3 DEF Camera!TakeImage
    <3>2. sim.cursor \in Nat /\ Camera!ScenarioFrames(sim.scenario) \in Nat
      BY FramesArePositive DEF CameraSound, CameraTyped, SimRecords
    <3> QED BY <1>1, <1>2, <3>1, <3>2, TakenAtFile
  <2> QED BY <2>1, <2>2, <2>3
<1>7. \/ Camera!TakeStart(r) \/ Camera!TakeAbort(r)
      \/ Camera!TakeState(r) \/ Camera!TakeImage(r)
  <2>1. asked[r].kind \in Camera!Kinds \/ asked[r].kind = "none"
    BY AskedHas DEF AskedRecords
  <2> QED BY <2>1 DEF Camera!Take, Camera!Kinds
<1>8. QED
  BY <1>3, <1>4, <1>5, <1>6, <1>7

-----------------------------------------------------------------------------
LEMMA CameraStartBody ==
  ASSUME CameraSound, NEW r \in Requests, Camera!StartBody(r)
  PROVE  CameraSound'
<1> DEFINE a == [asked[r] EXCEPT !.at = "answered", !.answer = "done",
                                 !.did = TRUE, !.of = begun + 1]
<1>1. /\ asked[r] \in AskedRecords /\ AskedFits(asked[r])
      /\ MaxStarts \in Nat /\ begun \in 0 .. MaxStarts
  BY AskedHas DEF CameraSound, BoundsTyped, CameraTyped
<1>2. begun + 1 \in 0 .. MaxStarts /\ begun + 1 > 0
  BY <1>1 DEF Camera!StartBody
<1>3. a \in AskedRecords
  BY <1>1, <1>2 DEF AskedRecords, Answers
<1>4. AskedFits(a) /\ a.at = "answered"
  BY <1>1 DEF AskedRecords, AskedFits
<1>5. /\ sim' = [sim EXCEPT !.phase = "exposing", !.ready = FALSE,
                            !.exposure = begun + 1, !.logged = TRUE]
      /\ begun' = begun + 1 /\ asked' = [asked EXCEPT ![r] = a]
      /\ UNCHANGED <<given, aborted, outcomes, lone, selects, restarts, cuts>>
  BY DEF Camera!StartBody, Camera!hands, CameraSound, AllAsked
<1> HIDE DEF a
<1>6. AllAsked' /\ AllOutcomes'
  BY <1>3, <1>4, <1>5, AskedMoves DEF CameraSound, AllOutcomes
<1>7. sim' \in SimRecords
  BY <1>2, <1>5 DEF CameraSound, CameraTyped, SimRecords
<1>8. /\ sim'.exposure = begun + 1 /\ sim'.phase = "exposing" /\ ~sim'.ready
      /\ sim'.cursor = sim.cursor /\ sim'.scenario = sim.scenario
  BY <1>5 DEF CameraSound, CameraTyped, SimRecords
<1>9. CameraTyped' /\ SimFits'
  BY <1>2, <1>5, <1>7, <1>8 DEF CameraSound, CameraTyped, SimFits
<1>10. Files' \subseteq Files
  BY <1>4, <1>5 DEF Files, CameraSound, AllAsked
<1> QED BY <1>6, <1>8, <1>9, <1>10, CameraActs

LEMMA CameraImageFile ==
  ASSUME CameraSound, NEW r \in Requests, Camera!ImageFile(r)
  PROVE  CameraSound'
<1>1. PICK declared \in {0} \cup 1 .. Limit + 1, size \in 0 .. Limit + 1 :
        asked' = [asked EXCEPT ![r].at = "reading", ![r].did = TRUE,
                               ![r].declared = declared, ![r].rest = size]
  BY DEF Camera!ImageFile
<1> DEFINE a == [asked[r] EXCEPT !.at = "reading", !.did = TRUE,
                                 !.declared = declared, !.rest = size]
<1>2. /\ asked[r] \in AskedRecords /\ AskedFits(asked[r])
      /\ asked[r].at = "file" /\ Limit \in Nat
  BY AskedHas DEF CameraSound, BoundsTyped, Camera!ImageFile, Camera!At
<1>3. asked[r].of \in Starts /\ declared \in 0 .. Limit + 1
  BY <1>2 DEF AskedFits
<1>4. a \in AskedRecords
  BY <1>2, <1>3 DEF AskedRecords
<1>5. AskedFits(a) /\ a.at = "reading"
  BY <1>2, <1>3 DEF AskedRecords, AskedFits
<1>6. /\ given' = [given EXCEPT ![asked[r].of] =
                    [times |-> @.times + 1, frame |-> sim.cursor + 1]]
      /\ sim' = [sim EXCEPT !.cursor = @ + 1, !.ready = FALSE]
      /\ asked' = [asked EXCEPT ![r] = a]
      /\ UNCHANGED <<begun, aborted, outcomes, lone, selects, restarts, cuts>>
  BY <1>1 DEF Camera!ImageFile, Camera!hands, CameraSound, AllAsked
<1> HIDE DEF a
<1>7. AllAsked' /\ AllOutcomes'
  BY <1>4, <1>5, <1>6, AskedMoves DEF CameraSound, AllOutcomes
<1>8. sim' \in SimRecords
  <2>1. sim \in SimRecords
    BY DEF CameraSound, CameraTyped
  <2>2. sim.cursor + 1 \in Nat
    BY <2>1 DEF SimRecords
  <2> QED BY <1>6, <2>1, <2>2 DEF SimRecords
<1>9. /\ sim'.exposure = sim.exposure /\ sim'.phase = sim.phase /\ ~sim'.ready
      /\ sim'.cursor = sim.cursor + 1 /\ sim'.scenario = sim.scenario
      /\ sim.cursor \in Nat
  <2>1. sim \in SimRecords
    BY DEF CameraSound, CameraTyped
  <2>2. sim.cursor \in Nat /\ sim'.cursor = sim.cursor + 1
    BY <1>6, <2>1 DEF SimRecords
  <2> QED BY <1>6, <2>1, <2>2 DEF SimRecords
<1>10. given' \in [Starts -> [times : Nat, frame : Nat]]
  <2>1. given[asked[r].of].times + 1 \in Nat /\ sim.cursor + 1 \in Nat
    BY <1>3, <1>9 DEF CameraSound, CameraTyped
  <2> QED BY <1>6, <2>1 DEF CameraSound, CameraTyped
<1>11. CameraTyped' /\ SimFits'
  BY <1>6, <1>8, <1>9, <1>10 DEF CameraSound, CameraTyped, SimFits
<1>12. Overruns'
  <2>1. /\ Cardinality(Files') = Cardinality(Files) - 1
        /\ Cardinality(Files) \in Nat /\ Cardinality(Requests) \in Nat
    BY <1>2, <1>4, <1>5, <1>6, FilesMove, FilesCounted
      DEF CameraSound, BoundsTyped, AllAsked
  <2>2. Camera!ScenarioFrames(sim.scenario) \in Nat
    BY FramesArePositive
  <2> QED BY <1>9, <2>1, <2>2 DEF CameraSound, Overruns
<1> QED BY <1>7, <1>11, <1>12 DEF CameraSound, BoundsTyped

LEMMA CameraAlone ==
  ASSUME CameraSound,
         \/ Camera!Advance \/ Camera!Restart
         \/ \E s \in Selected : Camera!SelectScenario(s)
  PROVE  CameraSound'
<1>1. /\ UNCHANGED <<begun, given, aborted, asked, outcomes, lone, cuts>>
      /\ selects' \in {selects, selects + 1}
      /\ restarts' \in {restarts, restarts + 1}
  BY DEF Camera!Advance, Camera!Restart, Camera!SelectScenario, Camera!hands
<1>2. AllAsked' /\ AllOutcomes' /\ Files' \subseteq Files
  BY <1>1 DEF CameraSound, AllAsked, AllOutcomes, Files
<1>3. sim \in SimRecords /\ SimFits /\ begun \in Nat /\ MaxStarts \in Nat
  BY DEF CameraSound, CameraTyped, BoundsTyped
<1>4. /\ sim' \in SimRecords /\ SimFits'
      /\ \/ sim'.scenario = sim.scenario /\ sim'.cursor = sim.cursor
         \/ sim'.cursor = 0
  <2>1. CASE Camera!Advance
    <3>1. CASE sim.phase = "exposing"
      <4>1. sim' = [sim EXCEPT !.phase = "reading"]
        BY <2>1, <3>1 DEF Camera!Advance
      <4> QED BY <1>1, <1>3, <3>1, <4>1 DEF SimRecords, SimFits
    <3>2. CASE sim.phase # "exposing"
      <4>1. sim' = [sim EXCEPT !.phase = "idle", !.ready = TRUE]
            /\ sim.phase # "idle"
        BY <2>1, <3>2 DEF Camera!Advance
      <4> QED BY <1>1, <1>3, <4>1 DEF SimRecords, SimFits
    <3> QED BY <3>1, <3>2
  <2>2. CASE Camera!Restart
    BY <1>1, <1>3, <2>2 DEF Camera!Restart, Camera!Cleared, SimRecords, SimFits
  <2>3. CASE \E s \in Selected : Camera!SelectScenario(s)
    <3>1. PICK s \in Selected : Camera!SelectScenario(s)
      BY <2>3
    <3>2. sim' = [Camera!Fresh(s) EXCEPT !.exposure = sim.exposure]
      BY <3>1 DEF Camera!SelectScenario
    <3>3. Camera!Fresh(s) \in SimRecords
      BY <1>3 DEF Camera!Fresh, SimRecords
    <3>4. sim' \in SimRecords /\ sim'.cursor = 0 /\ sim'.phase = "idle"
          /\ ~sim'.ready /\ sim'.exposure = sim.exposure
      BY <1>3, <3>2, <3>3 DEF SimRecords, Camera!Fresh
    <3> QED BY <1>1, <1>3, <3>4 DEF SimFits
  <2> QED BY <2>1, <2>2, <2>3
<1>5. CameraTyped'
  BY <1>1, <1>4 DEF CameraSound, CameraTyped
<1> QED BY <1>2, <1>4, <1>5, CameraActs

LEMMA CameraStep == CameraSound /\ [Camera!Next]_Camera!cameraVars => CameraSound'
<1> SUFFICES ASSUME CameraSound, [Camera!Next]_Camera!cameraVars
             PROVE  CameraSound'
  OBVIOUS
<1>1. ASSUME NEW r \in Requests,
             \/ \E kind \in Camera!Kinds : Camera!Call(r, kind)
             \/ Camera!Take(r) \/ Camera!StartBody(r) \/ Camera!ImageFile(r)
      PROVE  CameraSound'
  BY <1>1, CameraCalls, SimulatorTakes, CameraStartBody, CameraImageFile
<1>2. ASSUME NEW r \in Requests,
             \/ Camera!Receive(r) \/ Camera!Chunk(r)
             \/ Camera!ReadEnds(r) \/ Camera!Cut(r)
      PROVE  CameraSound'
  BY <1>2, CameraReceives, CameraChunks, CameraReadEnds, CameraCut
<1>3. CASE UNCHANGED Camera!cameraVars
  BY <1>3 DEF Camera!cameraVars, Camera!device, Camera!hands, CameraSound,
    BoundsTyped, CameraTyped, AllAsked, AllOutcomes, SimFits, Overruns, Files
<1> QED BY <1>1, <1>2, <1>3, CameraAlone DEF Camera!Next

-----------------------------------------------------------------------------
\* One caller, whose connections hold, and a scenario that stays: at most one
\* request is in hand, and the camera holds no image that was written.
Lonely == lone /\ cuts = 0 /\ selects = 0
OneInHand ==
  /\ \A r \in Requests : asked[r].waits <=> asked[r].at # "none"
  /\ \A q, r \in Requests : asked[q].at # "none" /\ asked[r].at # "none" => q = r
Written == {e \in Starts : given[e].times > 0}
WrittenOnce ==
  /\ \A e \in Written :
       given[e].times = 1 /\ e <= begun /\ given[e].frame <= sim.cursor
  /\ \A e \in aborted : e <= begun /\ e \notin Written
  /\ sim.cursor = Cardinality(Written)
  /\ \A e, f \in Written : e < f => given[e].frame < given[f].frame
HeldIsNew ==
  /\ sim.phase # "idle" \/ sim.ready \/ Files # {} =>
       begun \in Starts /\ begun \notin Written /\ begun \notin aborted
  /\ \A r \in Files : asked[r].of = begun /\ sim.phase = "idle"
LonelyInv == Lonely => OneInHand /\ WrittenOnce /\ HeldIsNew

LEMMA LonelyStarts == Camera!AlpacaCameraOK /\ Camera!Init => LonelyInv
<1> SUFFICES ASSUME Camera!AlpacaCameraOK, Camera!Init PROVE LonelyInv
  OBVIOUS
<1>1. \A r \in Requests : asked[r].at = "none" /\ ~asked[r].waits
  BY DEF Camera!Init, Camera!Unasked
<1>2. Written = {} /\ Files = {}
  BY <1>1 DEF Written, Files, Camera!Init, Starts
<1>3. sim.phase = "idle" /\ ~sim.ready /\ sim.cursor = 0 /\ aborted = {}
  BY DEF Camera!Init, Camera!Fresh
<1>4. Cardinality(Written) = 0
  BY <1>2, FS_EmptySet
<1> QED BY <1>1, <1>2, <1>3, <1>4
      DEF LonelyInv, OneInHand, WrittenOnce, HeldIsNew

\* A request moves on, or is made by a caller who awaits none.
LEMMA HandsMove ==
  ASSUME OneInHand, NEW r \in Requests,
         \A q \in Requests \ {r} : asked'[q] = asked[q],
         asked'[r].waits <=> asked'[r].at # "none",
         asked[r].at # "none" \/ \A q \in Requests : asked[q].at = "none"
  PROVE  OneInHand'
BY DEF OneInHand

LEMMA LonelyMoves ==
  ASSUME CameraSound, LonelyInv, NEW r \in Requests,
         \A q \in Requests \ {r} : asked'[q] = asked[q],
         UNCHANGED <<Camera!device, Camera!hands>>,
         \/ asked'[r].waits <=> asked'[r].at # "none"
         \/ /\ asked[r].at # "none" /\ asked'[r].at # "none"
            /\ asked'[r].waits = asked[r].waits,
         asked[r].at = "none" /\ lone => \A q \in Requests : ~asked[q].waits,
         asked'[r].at = "file" => asked'[r].of = begun /\ sim.ready
  PROVE  LonelyInv'
<1> SUFFICES ASSUME Lonely' PROVE (OneInHand /\ WrittenOnce /\ HeldIsNew)'
  BY DEF LonelyInv
<1>1. UNCHANGED <<lone, sim, begun, given, aborted, selects, restarts, cuts>>
  BY DEF Camera!device, Camera!hands
<1>2. Lonely /\ OneInHand /\ WrittenOnce /\ HeldIsNew
  BY <1>1 DEF Lonely, LonelyInv
<1>3. asked[r].at # "none" \/ \A q \in Requests : asked[q].at = "none"
  BY <1>2 DEF Lonely, OneInHand
<1>4. OneInHand'
  <2>1. asked'[r].waits <=> asked'[r].at # "none"
    BY <1>2 DEF OneInHand
  <2> QED BY <1>2, <1>3, <2>1, HandsMove
<1>5. Written' = Written /\ WrittenOnce'
  BY <1>1, <1>2 DEF Written, WrittenOnce
<1>6. HeldIsNew'
  <2>1. sim.phase # "idle" => ~sim.ready
    BY DEF CameraSound, SimFits
  <2>2. \A q \in Files' : q \in Files \/ (q = r /\ asked'[r].at = "file")
    BY DEF Files
  <2>3. ASSUME NEW q \in Files', q \in Files, q # r
        PROVE  asked'[q].of = begun /\ sim.phase = "idle"
    BY <1>2, <2>3 DEF HeldIsNew, Files
  <2>4. ASSUME NEW q \in Files', q = r
        PROVE  asked'[q].of = begun /\ sim.phase = "idle" /\ sim.ready
    BY <2>1, <2>4 DEF Files
  <2>5. \A q \in Files' : asked'[q].of = begun /\ sim.phase = "idle"
    BY <2>2, <2>3, <2>4 DEF Files
  <2>6. Files' # {} => Files # {} \/ sim.ready
    BY <2>2, <2>4
  <2> QED BY <1>1, <1>2, <1>5, <2>5, <2>6 DEF HeldIsNew
<1> QED BY <1>4, <1>5, <1>6

LEMMA LonelyAsks ==
  ASSUME CameraSound, LonelyInv, NEW r \in Requests,
         \/ \E kind \in Camera!Kinds : Camera!Call(r, kind)
         \/ Camera!Receive(r) \/ Camera!Chunk(r) \/ Camera!ReadEnds(r)
  PROVE  LonelyInv'
<1>1. UNCHANGED <<Camera!device, Camera!hands>>
  BY DEF Camera!Call, Camera!Receive, Camera!Chunk, Camera!ReadEnds,
    Camera!Settle
<1>2. asked \in [Requests -> AskedRecords]
  BY DEF CameraSound, AllAsked
<1>3. ASSUME NEW kind \in Camera!Kinds, Camera!Call(r, kind)
      PROVE  LonelyInv'
  <2>1. /\ \A q \in Requests \ {r} : asked'[q] = asked[q]
        /\ asked'[r].waits /\ asked'[r].at = "sent"
        /\ lone => \A q \in Requests : ~asked[q].waits
    BY <1>2, <1>3 DEF Camera!Call, Camera!Unasked
  <2> QED BY <1>1, <2>1, LonelyMoves
<1>4. ASSUME Camera!Receive(r) \/ Camera!ReadEnds(r)
      PROVE  LonelyInv'
  <2>1. /\ \A q \in Requests \ {r} : asked'[q] = asked[q]
        /\ ~asked'[r].waits /\ asked'[r].at = "none" /\ asked[r].at # "none"
    BY <1>2, <1>4 DEF Camera!Receive, Camera!ReadEnds, Camera!Settle,
      Camera!Unasked, Camera!At
  <2> QED BY <1>1, <2>1, LonelyMoves
<1>5. CASE Camera!Chunk(r)
  <2>1. /\ \A q \in Requests \ {r} : asked'[q] = asked[q]
        /\ asked'[r].waits = asked[r].waits
        /\ asked'[r].at = "reading" /\ asked[r].at = "reading"
    BY <1>2, <1>5 DEF Camera!Chunk, Camera!At, AskedRecords
  <2> QED BY <1>1, <2>1, LonelyMoves
<1> QED BY <1>3, <1>4, <1>5

LEMMA LonelyCut ==
  ASSUME CameraSound, NEW r \in Requests, Camera!Cut(r)
  PROVE  LonelyInv'
<1>1. cuts \in Nat /\ cuts' = cuts + 1
  BY DEF CameraSound, CameraTyped, Camera!Cut
<1> QED BY <1>1 DEF LonelyInv, Lonely

\* A request that is taken: it stays in hand.
LEMMA TakenStays ==
  ASSUME CameraSound, NEW r \in Requests, Camera!Take(r)
  PROVE  /\ \A q \in Requests \ {r} : asked'[q] = asked[q]
         /\ asked'[r].waits = asked[r].waits
         /\ asked[r].at = "sent" /\ asked'[r].at # "none"
         /\ asked'[r].at = "file" =>
              /\ asked'[r].of = sim.exposure /\ sim.ready
              /\ UNCHANGED Camera!device
<1>1. asked \in [Requests -> AskedRecords] /\ asked[r].at = "sent"
  BY DEF CameraSound, AllAsked, Camera!Take, Camera!At
<1>2. ASSUME NEW answer, Camera!Answer(r, answer) \/ Camera!Did(r, answer)
      PROVE  /\ \A q \in Requests \ {r} : asked'[q] = asked[q]
             /\ asked'[r].waits = asked[r].waits /\ asked'[r].at = "answered"
  BY <1>1, <1>2 DEF Camera!Answer, Camera!Did, AskedRecords
<1>3. ASSUME NEW at \in {"body", "file"}, Camera!Wait(r, at)
      PROVE  /\ \A q \in Requests \ {r} : asked'[q] = asked[q]
             /\ asked'[r].waits = asked[r].waits /\ asked'[r].at = at
             /\ asked'[r].of = sim.exposure /\ UNCHANGED Camera!device
  BY <1>1, <1>3 DEF Camera!Wait, AskedRecords
<1>4. ASSUME asked' = [asked EXCEPT ![r].at = "reading",
                                    ![r].declared = Limit + 1]
      PROVE  /\ \A q \in Requests \ {r} : asked'[q] = asked[q]
             /\ asked'[r].waits = asked[r].waits /\ asked'[r].at = "reading"
  BY <1>1, <1>4 DEF AskedRecords
<1>5. \/ \E answer : Camera!Answer(r, answer) \/ Camera!Did(r, answer)
      \/ Camera!Wait(r, "body")
      \/ Camera!Wait(r, "file") /\ sim.ready
      \/ asked' = [asked EXCEPT ![r].at = "reading", ![r].declared = Limit + 1]
  <2>1. \/ Camera!TakeStart(r) \/ Camera!TakeAbort(r)
        \/ Camera!TakeState(r) \/ Camera!TakeImage(r)
    <3>1. asked[r].kind \in Camera!Kinds \/ asked[r].kind = "none"
      BY AskedHas DEF AskedRecords
    <3> QED BY <3>1 DEF Camera!Take, Camera!Kinds
  <2>2. CASE \/ Camera!TakeStart(r) \/ Camera!TakeAbort(r)
             \/ Camera!TakeState(r)
    BY <2>2 DEF Camera!TakeStart, Camera!TakeAbort, Camera!TakeState,
      Camera!Refuse
  <2>3. CASE Camera!TakeImage(r)
    BY <2>3 DEF Camera!TakeImage, Camera!Refuse
  <2> QED BY <2>1, <2>2, <2>3
<1> QED BY <1>1, <1>2, <1>3, <1>4, <1>5

LEMMA LonelyTakes ==
  ASSUME CameraSound, LonelyInv, NEW r \in Requests, Camera!Take(r)
  PROVE  LonelyInv'
<1>1. UNCHANGED Camera!hands /\ sim.exposure = begun
  BY DEF Camera!Take, CameraSound, SimFits
<1>2. CASE UNCHANGED Camera!device
  BY <1>1, <1>2, TakenStays, LonelyMoves
<1>3. CASE Camera!TakeAbort(r) /\ sim.phase # "idle"
  <2> SUFFICES ASSUME Lonely'
               PROVE  (OneInHand /\ WrittenOnce /\ HeldIsNew)'
    BY DEF LonelyInv
  <2>1. /\ sim' = Camera!Cleared /\ aborted' = aborted \cup {begun}
        /\ UNCHANGED <<begun, given, lone, selects, restarts, cuts>>
    BY <1>1, <1>3 DEF Camera!TakeAbort, Camera!hands
  <2>2. /\ sim'.phase = "idle" /\ ~sim'.ready /\ sim'.cursor = sim.cursor
        /\ begun \in Nat
    BY <2>1 DEF Camera!Cleared, CameraSound, CameraTyped, SimRecords
  <2>3. Lonely /\ OneInHand /\ WrittenOnce /\ HeldIsNew
    BY <2>1 DEF Lonely, LonelyInv
  <2>4. OneInHand'
    BY <2>3, TakenStays, HandsMove DEF OneInHand
  <2>5. Files' = {}
    <3>1. asked'[r].at # "file"
      BY <1>3, AskedHas DEF Camera!TakeAbort, Camera!Did, CameraSound, AllAsked,
        AskedRecords
    <3> QED BY <1>3, <2>3, <3>1, TakenStays DEF Files, HeldIsNew
  <2>6. Written' = Written /\ begun \notin Written
    BY <1>3, <2>1, <2>3 DEF Written, HeldIsNew
  <2>7. WrittenOnce'
    BY <2>1, <2>2, <2>3, <2>6 DEF WrittenOnce
  <2>8. HeldIsNew'
    BY <2>2, <2>5 DEF HeldIsNew
  <2> QED BY <2>4, <2>7, <2>8
<1>4. UNCHANGED Camera!device \/ (Camera!TakeAbort(r) /\ sim.phase # "idle")
  <2>1. \/ Camera!TakeStart(r) \/ Camera!TakeAbort(r)
        \/ Camera!TakeState(r) \/ Camera!TakeImage(r)
    <3>1. asked[r].kind \in Camera!Kinds \/ asked[r].kind = "none"
      BY AskedHas DEF AskedRecords
    <3> QED BY <3>1 DEF Camera!Take, Camera!Kinds
  <2> QED BY <2>1 DEF Camera!TakeStart, Camera!TakeAbort, Camera!TakeState,
    Camera!TakeImage, Camera!Refuse, Camera!Wait
<1> QED BY <1>2, <1>3, <1>4

LEMMA LonelyStartBody ==
  ASSUME CameraSound, LonelyInv, NEW r \in Requests, Camera!StartBody(r)
  PROVE  LonelyInv'
<1> SUFFICES ASSUME Lonely' PROVE (OneInHand /\ WrittenOnce /\ HeldIsNew)'
  BY DEF LonelyInv
<1>1. /\ begun' = begun + 1 /\ begun < MaxStarts
      /\ UNCHANGED <<given, aborted, lone, selects, restarts, cuts>>
  BY DEF Camera!StartBody, Camera!hands
<1>2. Lonely /\ OneInHand /\ WrittenOnce /\ HeldIsNew
  BY <1>1 DEF Lonely, LonelyInv
<1>3. asked \in [Requests -> AskedRecords] /\ begun \in Nat /\ MaxStarts \in Nat
  BY DEF CameraSound, AllAsked, CameraTyped, BoundsTyped
<1>4. /\ \A q \in Requests \ {r} : asked'[q] = asked[q]
      /\ asked'[r].waits = asked[r].waits
      /\ asked[r].at = "body" /\ asked'[r].at = "answered"
  BY <1>3 DEF Camera!StartBody, Camera!At, AskedRecords
<1>5. OneInHand'
  BY <1>2, <1>4, HandsMove DEF OneInHand
<1>6. sim'.cursor = sim.cursor
  BY DEF Camera!StartBody, CameraSound, CameraTyped, SimRecords
<1>7. Written' = Written /\ Files' = {}
  BY <1>1, <1>2, <1>4 DEF Written, Files, OneInHand
<1>8. /\ begun' \in Starts /\ begun' \notin Written
      /\ begun' \notin aborted /\ \A e \in Starts : e \in Nat
  BY <1>1, <1>2, <1>3 DEF WrittenOnce, Starts, Camera!Starts, Written
<1>9. WrittenOnce'
  <2>1. aborted \subseteq Starts
    BY DEF CameraSound, CameraTyped
  <2> QED BY <1>1, <1>2, <1>3, <1>6, <1>7, <1>8, <2>1 DEF WrittenOnce, Written
<1>10. HeldIsNew'
  BY <1>1, <1>7, <1>8 DEF HeldIsNew
<1> QED BY <1>5, <1>9, <1>10

LEMMA LonelyImageFile ==
  ASSUME CameraSound, LonelyInv, NEW r \in Requests, Camera!ImageFile(r)
  PROVE  LonelyInv'
<1> SUFFICES ASSUME Lonely' PROVE (OneInHand /\ WrittenOnce /\ HeldIsNew)'
  BY DEF LonelyInv
<1>1. UNCHANGED <<begun, aborted, lone, selects, restarts, cuts>>
  BY DEF Camera!ImageFile, Camera!hands
<1>2. Lonely /\ OneInHand /\ WrittenOnce /\ HeldIsNew
  BY <1>1 DEF Lonely, LonelyInv
<1>3. asked \in [Requests -> AskedRecords] /\ begun \in Nat /\ sim.cursor \in Nat
  BY DEF CameraSound, AllAsked, CameraTyped, SimRecords
<1>4. /\ \A q \in Requests \ {r} : asked'[q] = asked[q]
      /\ asked'[r].waits = asked[r].waits
      /\ asked[r].at = "file" /\ asked'[r].at = "reading"
  BY <1>3 DEF Camera!ImageFile, Camera!At, AskedRecords
<1>5. OneInHand'
  BY <1>2, <1>4, HandsMove DEF OneInHand
<1>6. /\ asked[r].of = begun /\ sim.phase = "idle" /\ begun \in Starts
      /\ begun \notin Written /\ begun \notin aborted
  BY <1>2, <1>4 DEF HeldIsNew, Files
<1>7. /\ sim'.cursor = sim.cursor + 1 /\ sim'.phase = "idle" /\ ~sim'.ready
  <2>1. sim \in SimRecords
    BY DEF CameraSound, CameraTyped
  <2>2. sim' = [sim EXCEPT !.cursor = @ + 1, !.ready = FALSE]
    BY DEF Camera!ImageFile
  <2> QED BY <1>6, <2>1, <2>2 DEF SimRecords
<1>8. given' = [given EXCEPT ![begun] =
                 [times |-> @.times + 1, frame |-> sim.cursor + 1]]
  BY <1>6 DEF Camera!ImageFile
<1>9. /\ given \in [Starts -> [times : Nat, frame : Nat]]
      /\ given[begun].times = 0
  <2>1. given \in [Starts -> [times : Nat, frame : Nat]]
    BY DEF CameraSound, CameraTyped
  <2> QED BY <1>6, <2>1 DEF Written
<1>10. /\ given'[begun].times = 1 /\ given'[begun].frame = sim.cursor + 1
       /\ \A e \in Starts \ {begun} : given'[e] = given[e]
  BY <1>6, <1>8, <1>9
<1>11. Written' = Written \cup {begun} /\ Files' = {}
  <2>1. Files' = {}
    BY <1>2, <1>4 DEF Files, OneInHand
  <2> QED BY <1>6, <1>10, <2>1 DEF Written
<1>12. sim'.cursor = Cardinality(Written')
  <2>1. Written \subseteq 1 .. MaxStarts /\ MaxStarts \in Nat
    BY DEF Written, Starts, Camera!Starts, CameraSound, BoundsTyped
  <2>2. IsFiniteSet(Written)
    <3>1. IsFiniteSet(1 .. MaxStarts)
      BY <2>1, FS_Interval
    <3> QED BY <2>1, <3>1, FS_Subset
  <2>3. Cardinality(Written \cup {begun}) = Cardinality(Written) + 1
    BY <1>6, <2>2, FS_AddElement
  <2> QED BY <1>2, <1>7, <1>11, <2>3 DEF WrittenOnce
<1>13. \A e \in Written : /\ given'[e] = given[e] /\ e < begun
                          /\ given[e].frame <= sim.cursor
                          /\ given[e].frame \in Nat /\ e \in Nat
  <2>1. \A e \in Written : e \in Starts /\ e # begun /\ e \in Nat
    BY <1>6 DEF Written, Starts, Camera!Starts
  <2> QED BY <1>2, <1>3, <1>9, <1>10, <2>1 DEF WrittenOnce
<1>14. WrittenOnce'
  <2>1. ASSUME NEW e \in Written'
        PROVE  /\ given'[e].times = 1 /\ e <= begun
               /\ given'[e].frame <= sim'.cursor
    BY <1>2, <1>3, <1>7, <1>10, <1>11, <1>13, <2>1 DEF WrittenOnce
  <2>2. ASSUME NEW e \in Written', NEW f \in Written', e < f
        PROVE  given'[e].frame < given'[f].frame
    BY <1>2, <1>3, <1>10, <1>11, <1>13, <2>2 DEF WrittenOnce
  <2>3. \A e \in aborted' : e <= begun' /\ e \notin Written'
    BY <1>1, <1>2, <1>6, <1>11 DEF WrittenOnce
  <2> QED BY <1>1, <1>12, <2>1, <2>2, <2>3 DEF WrittenOnce
<1>15. HeldIsNew'
  BY <1>7, <1>11 DEF HeldIsNew
<1> QED BY <1>5, <1>14, <1>15

LEMMA LonelyAlone ==
  ASSUME CameraSound, LonelyInv,
         \/ Camera!Advance \/ Camera!Restart
         \/ \E s \in Selected : Camera!SelectScenario(s)
  PROVE  LonelyInv'
<1> SUFFICES ASSUME Lonely' PROVE (OneInHand /\ WrittenOnce /\ HeldIsNew)'
  BY DEF LonelyInv
<1>1. Camera!Advance \/ Camera!Restart
  <2>1. selects \in Nat /\ selects' # selects + 1
    BY DEF CameraSound, CameraTyped, Lonely
  <2> QED BY <2>1 DEF Camera!SelectScenario
<1>2. UNCHANGED <<begun, given, aborted, asked, lone, selects, cuts>>
  BY <1>1 DEF Camera!Advance, Camera!Restart, Camera!hands
<1>3. Lonely /\ OneInHand /\ WrittenOnce /\ HeldIsNew
  BY <1>2 DEF Lonely, LonelyInv
<1>4. sim \in SimRecords
  BY DEF CameraSound, CameraTyped
<1>5. /\ sim'.cursor = sim.cursor
      /\ sim'.phase # "idle" \/ sim'.ready => sim.phase # "idle"
      /\ Files # {} => sim'.phase = "idle"
  <2>1. CASE Camera!Restart
    BY <1>4, <2>1 DEF Camera!Restart, Camera!Cleared, SimRecords
  <2>2. CASE Camera!Advance
    <3>1. Files = {} /\ sim.phase # "idle"
      BY <1>3, <2>2 DEF HeldIsNew, Camera!Advance
    <3> QED BY <1>4, <2>2, <3>1 DEF Camera!Advance, SimRecords
  <2> QED BY <1>1, <2>1, <2>2
<1>6. Files' = Files /\ Written' = Written
  BY <1>2 DEF Files, Written
<1>7. OneInHand' /\ WrittenOnce'
  BY <1>2, <1>3, <1>5, <1>6 DEF OneInHand, WrittenOnce
<1>8. HeldIsNew'
  BY <1>2, <1>3, <1>5, <1>6 DEF HeldIsNew
<1> QED BY <1>7, <1>8

CameraInv == CameraSound /\ LonelyInv

LEMMA CameraKeeps == CameraInv /\ [Camera!Next]_Camera!cameraVars => CameraInv'
<1> SUFFICES ASSUME CameraInv, [Camera!Next]_Camera!cameraVars
             PROVE  CameraInv'
  OBVIOUS
<1>1. CameraSound'
  BY CameraStep DEF CameraInv
<1>2. LonelyInv'
  <2>1. ASSUME NEW r \in Requests,
               \/ \E kind \in Camera!Kinds : Camera!Call(r, kind)
               \/ Camera!Receive(r) \/ Camera!Chunk(r) \/ Camera!ReadEnds(r)
        PROVE  LonelyInv'
    BY <2>1, LonelyAsks DEF CameraInv
  <2>2. ASSUME NEW r \in Requests,
               \/ Camera!Take(r) \/ Camera!StartBody(r)
               \/ Camera!ImageFile(r) \/ Camera!Cut(r)
        PROVE  LonelyInv'
    BY <2>2, LonelyTakes, LonelyStartBody, LonelyImageFile, LonelyCut
      DEF CameraInv
  <2>3. CASE UNCHANGED Camera!cameraVars
    BY <2>3 DEF CameraInv, Camera!cameraVars, Camera!device, Camera!hands,
      LonelyInv, Lonely, OneInHand, WrittenOnce, HeldIsNew, Written, Files
  <2> QED BY <2>1, <2>2, <2>3, LonelyAlone DEF Camera!Next, CameraInv
<1> QED BY <1>1, <1>2 DEF CameraInv

LEMMA CameraTruth == CameraInv => Camera!CameraTellsTruth
<1> SUFFICES ASSUME CameraInv PROVE Camera!CameraTellsTruth
  OBVIOUS
<1>1. Camera!TypeOK
  <2>1. \A r \in Requests : asked[r].waits => asked[r].at # "none"
    BY DEF CameraInv, CameraSound, AllAsked, AskedFits
  <2> QED BY <2>1 DEF CameraInv, CameraSound, CameraTyped, SimRecords, Starts,
    Camera!TypeOK, Camera!At
<1>2. Camera!OutcomeIsTrue /\ Camera!ImageIsWhole
  BY DEF CameraInv, CameraSound, AllOutcomes, OutcomeFits, Starts,
    Camera!OutcomeIsTrue, Camera!ImageIsWhole
<1>3. Camera!ImageIsOnce
  <2> SUFFICES ASSUME Lonely, WrittenOnce PROVE Camera!ImageIsOnce
    BY DEF CameraInv, LonelyInv, Lonely, Camera!ImageIsOnce
  <2>1. /\ \A e \in Starts : given[e].times \in Nat
        /\ aborted \subseteq Starts
    BY DEF CameraInv, CameraSound, CameraTyped
  <2>2. \A e \in Starts : /\ e \in Written <=> given[e].times > 0
                          /\ given[e].times <= 1
                          /\ e \in aborted => given[e].times = 0
    BY <2>1 DEF WrittenOnce, Written
  <2>3. sim.cursor = Camera!Cardinality({e \in Camera!Starts :
                                           given[e].times > 0})
    BY SameCount DEF WrittenOnce, Written, Starts
  <2> QED BY <2>1, <2>2, <2>3 DEF WrittenOnce, Starts, Camera!ImageIsOnce
<1>4. Camera!CountsFrames
  <2>1. Cardinality(Files) \in Nat /\ Cardinality(Requests) \in Nat
    BY FilesCounted DEF CameraInv, CameraSound, BoundsTyped
  <2>2. sim.cursor \in Nat /\ Camera!ScenarioFrames(sim.scenario) \in Nat
    BY FramesArePositive DEF CameraInv, CameraSound, CameraTyped, SimRecords
  <2> QED BY <2>1, <2>2, SameCount DEF CameraInv, CameraSound, Overruns,
    Camera!CountsFrames
<1>5. Camera!BusyHoldsNone
  BY DEF CameraInv, CameraSound, SimFits, Camera!BusyHoldsNone
<1> QED BY <1>1, <1>2, <1>3, <1>4, <1>5 DEF Camera!CameraTellsTruth

-----------------------------------------------------------------------------
(* The preflight observation, for any devices.                             *)

Facts == Preflight!Facts
DeviceKinds == Preflight!Kinds
FactsOf(kind) == Preflight!FactsOf(kind)
Reads(kind) == Preflight!Reads(kind)
FactsTyped ==
  facts \in [Facts -> BOOLEAN] /\ seen \in [Facts -> SUBSET BOOLEAN]

\* What blocks was seen, and a device whose checks are done was seen as
\* needed if nothing blocks or is unavailable.
CheckFits(c) ==
  /\ c[3] \in {"ready", "blocked", "unavailable"}
  /\ c[3] = "blocked" =>
       <<c[1], c[2]>> \in Facts /\ FALSE \in seen[<<c[1], c[2]>>]
Covered(kind, safety) ==
  /\ \E c \in safety : c[1] = kind
  /\ \/ \E c \in safety : c[3] \in {"blocked", "unavailable"}
     \/ \A fact \in FactsOf(kind) : TRUE \in seen[<<kind, fact>>]

ReadSoFar(kind) ==
  /\ observing.read \in 1 .. Len(Reads(kind))
  /\ observing.values \in Seq(BOOLEAN)
  /\ Len(observing.values) = observing.read - 1
  /\ \A j \in 1 .. observing.read - 1 :
       observing.values[j] \in seen[<<kind, Reads(kind)[j]>>]
ObservingFits ==
  /\ observing.device \in 1 .. Len(Devices) + 1
  /\ \A f \in Facts : facts[f] \in seen[f]
  /\ \A k \in observing.listed :
       k \in DeviceKinds /\ TRUE \in seen[<<k, "available">>]
  /\ \A i \in 1 .. observing.device - 1 : Covered(Devices[i], observing.safety)
  /\ \A c \in observing.safety : CheckFits(c)
  /\ observing.device <= Len(Devices) => ReadSoFar(Devices[observing.device])
ObservingRecords ==
  [device : Nat, read : Nat, listed : SUBSET DeviceKinds,
   values : Seq(BOOLEAN), safety : SUBSET Seq(STRING)]
SnapshotFits ==
  /\ snapshot.verdict = "ready" => \A f \in Facts : TRUE \in seen[f]
  /\ snapshot.verdict = "blocked" => \E f \in Facts : FALSE \in seen[f]
  /\ snapshot.verdict # "none" =>
       \A kind \in DeviceKinds : \E c \in snapshot.safety : c[1] = kind
  /\ \A c \in snapshot.safety : CheckFits(c)

PreflightInv ==
  /\ FactsTyped /\ SnapshotFits
  /\ observing = Preflight!Rest \/ ObservingFits

LEMMA DeviceKindsAre ==
  ASSUME Preflight!AlpacaPreflightOK
  PROVE  /\ Len(Devices) \in Nat /\ Len(Devices) > 0
         /\ \A i \in 1 .. Len(Devices) : Devices[i] \in DeviceKinds
         /\ \A kind \in DeviceKinds :
              \E i \in 1 .. Len(Devices) : Devices[i] = kind
<1>1. /\ Devices \in Seq({"camera", "telescope", "focuser", "filterWheel"})
      /\ Devices # <<>>
  BY DEF Preflight!AlpacaPreflightOK
<1>2. Len(Devices) \in Nat /\ Len(Devices) > 0
      /\ DOMAIN Devices = 1 .. Len(Devices)
  BY <1>1
<1>3. DeviceKinds = {Devices[i] : i \in 1 .. Len(Devices)}
  BY <1>2 DEF DeviceKinds, Preflight!Kinds
<1> QED BY <1>2, <1>3

LEMMA ReadsAre ==
  ASSUME NEW kind
  PROVE  /\ Len(Reads(kind)) \in {2, 3, 4}
         /\ DOMAIN Reads(kind) = 1 .. Len(Reads(kind))
         /\ Reads(kind)[1] = "connected"
         /\ Reads(kind)[Len(Reads(kind))] = "facts"
         /\ \A j \in 1 .. Len(Reads(kind)) - 1 :
              Reads(kind)[j] \notin {"facts", "available"}
<1> DEFINE t == <<"connected", "parked", "slewing", "facts">>
           o == <<"connected", "ismoving", "facts">>
           c == <<"connected", "facts">>
<1>1. Reads(kind) \in {t, o, c}
  BY DEF Reads, Preflight!Reads
<1>2. /\ DOMAIN t = 1 .. 4 /\ Len(t) = 4 /\ t[1] = "connected"
      /\ t[2] = "parked" /\ t[3] = "slewing" /\ t[4] = "facts"
  OBVIOUS
<1>3. /\ DOMAIN o = 1 .. 3 /\ Len(o) = 3 /\ o[1] = "connected"
      /\ o[2] = "ismoving" /\ o[3] = "facts"
  OBVIOUS
<1>4. /\ DOMAIN c = 1 .. 2 /\ Len(c) = 2 /\ c[1] = "connected"
      /\ c[2] = "facts"
  OBVIOUS
<1> HIDE DEF t, o, c
<1>5. CASE Reads(kind) = t
  <2>1. \A j \in 1 .. Len(t) - 1 : j \in {1, 2, 3}
    BY <1>2
  <2>2. \A j \in 1 .. Len(t) - 1 : t[j] \notin {"facts", "available"}
    BY <1>2, <2>1
  <2>3. DOMAIN t = 1 .. Len(t) /\ t[Len(t)] = "facts"
    BY <1>2
  <2> QED BY <1>2, <1>5, <2>2, <2>3
<1>6. CASE Reads(kind) = o
  <2>1. \A j \in 1 .. Len(o) - 1 : j \in {1, 2}
    BY <1>3
  <2>2. \A j \in 1 .. Len(o) - 1 : o[j] \notin {"facts", "available"}
    BY <1>3, <2>1
  <2>3. DOMAIN o = 1 .. Len(o) /\ o[Len(o)] = "facts"
    BY <1>3
  <2> QED BY <1>3, <1>6, <2>2, <2>3
<1>7. CASE Reads(kind) = c
  <2>1. \A j \in 1 .. Len(c) - 1 : j \in {1}
    BY <1>4
  <2>2. \A j \in 1 .. Len(c) - 1 : c[j] \notin {"facts", "available"}
    BY <1>4, <2>1
  <2>3. DOMAIN c = 1 .. Len(c) /\ c[Len(c)] = "facts"
    BY <1>4
  <2> QED BY <1>4, <1>7, <2>2, <2>3
<1> QED BY <1>1, <1>5, <1>6, <1>7

LEMMA FactsAre ==
  /\ \A f \in Facts : \E kind \in DeviceKinds : \E fact \in FactsOf(kind) :
       f = <<kind, fact>>
  /\ \A kind \in DeviceKinds : \A fact \in FactsOf(kind) :
       <<kind, fact>> \in Facts
  /\ \A kind : "available" \in FactsOf(kind)
  /\ \A kind : \A j \in 1 .. Len(Reads(kind)) - 1 :
       Reads(kind)[j] \in FactsOf(kind)
  /\ \A kind : \A fact \in FactsOf(kind) :
       fact = "available"
         \/ \E j \in 1 .. Len(Reads(kind)) - 1 : fact = Reads(kind)[j]
<1>1. /\ \A f \in Facts : \E kind \in DeviceKinds : \E fact \in FactsOf(kind) :
           f = <<kind, fact>>
      /\ \A kind \in DeviceKinds : \A fact \in FactsOf(kind) :
           <<kind, fact>> \in Facts
  BY DEF Facts, DeviceKinds, FactsOf, Preflight!Facts
<1>2. ASSUME NEW kind
      PROVE  /\ "available" \in FactsOf(kind)
             /\ \A j \in 1 .. Len(Reads(kind)) - 1 :
                  Reads(kind)[j] \in FactsOf(kind)
             /\ \A fact \in FactsOf(kind) :
                  fact = "available"
                    \/ \E j \in 1 .. Len(Reads(kind)) - 1 :
                         fact = Reads(kind)[j]
  <2>1. FactsOf(kind) =
          ({"available"} \cup {Reads(kind)[j] : j \in 1 .. Len(Reads(kind))})
            \ {"facts"}
    BY ReadsAre DEF FactsOf, Reads, Preflight!FactsOf
  <2>2. Len(Reads(kind)) \in Nat
    BY ReadsAre
  <2> QED BY <2>1, <2>2, ReadsAre
<1> QED BY <1>1, <1>2

\* Nothing that was seen is forgotten.
LEMMA SeenGrows ==
  ASSUME \A f \in Facts : seen[f] \subseteq seen'[f]
  PROVE  /\ \A c : CheckFits(c) => CheckFits(c)'
         /\ \A safety : \A kind \in DeviceKinds :
              Covered(kind, safety) => Covered(kind, safety)'
         /\ SnapshotFits /\ snapshot' = snapshot => SnapshotFits'
<1>1. \A c : CheckFits(c) => CheckFits(c)'
  BY DEF CheckFits
<1>2. \A safety : \A kind \in DeviceKinds :
        Covered(kind, safety) => Covered(kind, safety)'
  BY FactsAre DEF Covered
<1>3. SnapshotFits /\ snapshot' = snapshot => SnapshotFits'
  BY <1>1 DEF SnapshotFits
<1> QED BY <1>1, <1>2, <1>3

LEMMA PreflightStarts == Preflight!Init => PreflightInv
<1> SUFFICES ASSUME Preflight!Init PROVE PreflightInv
  OBVIOUS
<1>1. FactsTyped
  BY DEF Preflight!Init, FactsTyped, Facts
<1>2. SnapshotFits
  BY DEF Preflight!Init, SnapshotFits, Preflight!Unread
<1> QED BY <1>1, <1>2 DEF Preflight!Init, PreflightInv

\* At rest, or when a device is done and the next one begins.
LEMMA NextDevice ==
  ASSUME Preflight!AlpacaPreflightOK, NEW device \in 1 .. Len(Devices) + 1,
         observing.device = device, observing.read = 1, observing.values = <<>>
  PROVE  observing.device <= Len(Devices) =>
           ReadSoFar(Devices[observing.device])
<1> SUFFICES ASSUME device <= Len(Devices) PROVE ReadSoFar(Devices[device])
  OBVIOUS
<1>1. 1 \in 1 .. Len(Reads(Devices[device]))
  BY ReadsAre
<1> QED BY <1>1 DEF ReadSoFar

LEMMA PreflightBegins ==
  ASSUME Preflight!AlpacaPreflightOK, PreflightInv, Preflight!Observe
  PROVE  PreflightInv'
<1>1. /\ observing' = [Preflight!Rest EXCEPT !.device = 1, !.read = 1,
           !.listed = {k \in DeviceKinds : facts[<<k, "available">>]}]
      /\ seen' = [f \in Facts |-> {facts[f]}] /\ snapshot' = Preflight!Unread
      /\ facts' = facts
  BY DEF Preflight!Observe, DeviceKinds, Facts
<1>2. /\ observing'.device = 1 /\ observing'.read = 1
      /\ observing'.values = <<>> /\ observing'.safety = {}
      /\ observing'.listed = {k \in DeviceKinds : facts[<<k, "available">>]}
  BY <1>1 DEF Preflight!Rest
<1>3. FactsTyped'
  BY <1>1 DEF PreflightInv, FactsTyped
<1>4. SnapshotFits'
  BY <1>1 DEF SnapshotFits, Preflight!Unread
<1>5. 1 \in 1 .. Len(Devices) + 1 /\ Len(Devices) \in Nat
  BY DeviceKindsAre
<1>6. ReadSoFar(Devices[observing.device])'
  <2>1. 1 \in 1 .. Len(Reads(Devices[1])) /\ 1 .. 0 = {}
    BY ReadsAre
  <2>2. Len(observing'.values) = 0 /\ observing'.values \in Seq(BOOLEAN)
    BY <1>2
  <2> QED BY <1>2, <2>1, <2>2 DEF ReadSoFar
<1>7. \A k \in observing'.listed :
        k \in DeviceKinds /\ TRUE \in seen'[<<k, "available">>]
  <2>1. ASSUME NEW k \in DeviceKinds, facts[<<k, "available">>]
        PROVE  TRUE \in seen'[<<k, "available">>]
    <3>1. <<k, "available">> \in Facts
      BY FactsAre
    <3>2. facts[<<k, "available">>] = TRUE
      BY <2>1, <3>1 DEF PreflightInv, FactsTyped
    <3> QED BY <1>1, <3>1, <3>2
  <2> QED BY <1>2, <2>1
<1>8. ObservingFits'
  <2>1. \A f \in Facts : facts'[f] \in seen'[f]
    BY <1>1
  <2>2. 1 .. observing'.device - 1 = {}
    BY <1>2
  <2> QED BY <1>2, <1>5, <1>6, <1>7, <2>1, <2>2 DEF ObservingFits
<1> QED BY <1>3, <1>4, <1>8 DEF PreflightInv

LEMMA UnavailableKeeps ==
  ASSUME PreflightInv, Preflight!Unavailable
  PROVE  PreflightInv'
<1>1. /\ UNCHANGED <<facts, observing, seen>> /\ observing = Preflight!Rest
      /\ snapshot' = [verdict |-> "unavailable",
           safety |-> {<<k, "available", "unavailable">> : k \in DeviceKinds}]
  BY DEF Preflight!Unavailable, DeviceKinds
<1>2. \A c \in snapshot'.safety : CheckFits(c)'
  <2>1. ASSUME NEW k PROVE CheckFits(<<k, "available", "unavailable">>)'
    BY DEF CheckFits
  <2> QED BY <1>1, <2>1
<1>3. \A k \in DeviceKinds : \E c \in snapshot'.safety : c[1] = k
  <2>1. \A k : <<k, "available", "unavailable">>[1] = k
    OBVIOUS
  <2>2. \A k \in DeviceKinds :
          <<k, "available", "unavailable">> \in snapshot'.safety
    BY <1>1
  <2> QED BY <2>1, <2>2
<1>4. SnapshotFits'
  BY <1>1, <1>2, <1>3 DEF SnapshotFits
<1> QED BY <1>1, <1>4 DEF PreflightInv, FactsTyped

\* A device is done: its checks cover it.
LEMMA DeviceDone ==
  ASSUME Preflight!AlpacaPreflightOK, PreflightInv, NEW kind, NEW checks,
         Preflight!Reading(kind), Preflight!Done(checks),
         \A c \in checks : CheckFits(c), Covered(kind, checks)
  PROVE  PreflightInv'
<1>1. /\ UNCHANGED <<facts, snapshot, seen>>
      /\ observing' = [observing EXCEPT !.device = @ + 1, !.read = 1,
           !.values = <<>>, !.safety = @ \cup checks]
  BY DEF Preflight!Done
<1>2. /\ observing.device \in 1 .. Len(Devices)
      /\ kind = Devices[observing.device] /\ Len(Devices) \in Nat
  BY DeviceKindsAre DEF Preflight!Reading, Preflight!AlpacaPreflightOK
<1>3. ObservingFits
  <2>1. observing # Preflight!Rest
    BY <1>2 DEF Preflight!Rest
  <2> QED BY <2>1 DEF PreflightInv
<1>4. /\ observing'.device = observing.device + 1 /\ observing'.read = 1
      /\ observing'.values = <<>> /\ observing'.listed = observing.listed
      /\ observing'.safety = observing.safety \cup checks
  BY <1>1
<1>5. observing'.device \in 1 .. Len(Devices) + 1
  BY <1>2, <1>4
<1>6. ReadSoFar(Devices[observing.device])'
  <2>1. /\ 1 \in 1 .. Len(Reads(Devices[observing'.device]))
        /\ 1 .. 0 = {}
    BY ReadsAre
  <2>2. Len(observing'.values) = 0 /\ observing'.values \in Seq(BOOLEAN)
    BY <1>4
  <2>3. Reads(Devices[observing.device])' = Reads(Devices[observing'.device])
    BY DEF Reads
  <2> QED BY <1>4, <2>1, <2>2, <2>3 DEF ReadSoFar
<1>7. (\A i \in 1 .. observing.device - 1 :
         Covered(Devices[i], observing.safety))'
  <2>1. ASSUME NEW i \in 1 .. observing'.device - 1
        PROVE  Covered(Devices[i], observing.safety)'
    <3>1. i \in 1 .. observing.device - 1 \/ i = observing.device
      BY <1>2, <1>4
    <3>2. Covered(Devices[i], observing.safety) \/ Covered(Devices[i], checks)
      BY <1>2, <1>3, <3>1 DEF ObservingFits
    <3> QED BY <1>1, <1>4, <3>2 DEF Covered
  <2> QED BY <2>1
<1>8. \A c \in observing'.safety : CheckFits(c)'
  BY <1>1, <1>3, <1>4 DEF ObservingFits, CheckFits
<1>9. ObservingFits'
  BY <1>1, <1>3, <1>4, <1>5, <1>6, <1>7, <1>8 DEF ObservingFits
<1>10. FactsTyped' /\ SnapshotFits'
  BY <1>1 DEF PreflightInv, FactsTyped, SnapshotFits, CheckFits
<1> QED BY <1>9, <1>10 DEF PreflightInv

LEMMA MissingKeeps ==
  ASSUME Preflight!AlpacaPreflightOK, PreflightInv, NEW kind,
         Preflight!Missing(kind)
  PROVE  PreflightInv'
<1> DEFINE checks == {<<kind, "available", "unavailable">>}
<1>1. (\A c \in checks : CheckFits(c)) /\ Covered(kind, checks)
  BY DEF CheckFits, Covered
<1> QED BY <1>1, DeviceDone DEF Preflight!Missing

LEMMA ConcludeKeeps ==
  ASSUME Preflight!AlpacaPreflightOK, PreflightInv, Preflight!Conclude
  PROVE  PreflightInv'
<1>1. /\ UNCHANGED <<facts, seen>> /\ observing' = Preflight!Rest
      /\ snapshot'.safety = observing.safety
      /\ snapshot'.verdict = Preflight!Verdict(observing.safety)
      /\ observing.device > Len(Devices) /\ Len(Devices) \in Nat
  BY DeviceKindsAre DEF Preflight!Conclude
<1>2. ObservingFits
  <2>1. observing # Preflight!Rest
    BY <1>1 DEF Preflight!Rest
  <2> QED BY <2>1 DEF PreflightInv
<1>3. \A i \in 1 .. Len(Devices) : Covered(Devices[i], observing.safety)
  BY <1>1, <1>2 DEF ObservingFits
<1>4. \A k \in DeviceKinds : Covered(k, observing.safety)
  BY <1>3, DeviceKindsAre
<1>5. \A c \in observing.safety : CheckFits(c)
  BY <1>2 DEF ObservingFits
<1>6. /\ snapshot'.verdict = "ready" =>
           \A c \in observing.safety : c[3] \notin {"blocked", "unavailable"}
      /\ snapshot'.verdict = "blocked" =>
           \E c \in observing.safety : c[3] = "blocked"
  BY <1>1 DEF Preflight!Verdict
<1>7. SnapshotFits'
  <2>1. snapshot'.verdict = "ready" => \A f \in Facts : TRUE \in seen'[f]
    BY <1>1, <1>4, <1>6, FactsAre DEF Covered
  <2>2. snapshot'.verdict = "blocked" => \E f \in Facts : FALSE \in seen'[f]
    BY <1>1, <1>5, <1>6 DEF CheckFits
  <2>3. \A k \in DeviceKinds : \E c \in snapshot'.safety : c[1] = k
    BY <1>1, <1>4 DEF Covered
  <2>4. \A c \in snapshot'.safety : CheckFits(c)'
    BY <1>1, <1>5 DEF CheckFits
  <2> QED BY <2>1, <2>2, <2>3, <2>4 DEF SnapshotFits
<1> QED BY <1>1, <1>7 DEF PreflightInv, FactsTyped

LEMMA ChangesKeeps ==
  ASSUME Preflight!AlpacaPreflightOK, PreflightInv, NEW g \in Facts, Preflight!Changes(g)
  PROVE  PreflightInv'
<1>1. /\ UNCHANGED <<observing, snapshot>>
      /\ facts' = [facts EXCEPT ![g] = ~@]
      /\ seen' = [seen EXCEPT ![g] = @ \cup {facts'[g]}]
  BY DEF Preflight!Changes
<1>2. FactsTyped'
  <2>1. facts' \in [Facts -> BOOLEAN] /\ facts'[g] \in BOOLEAN
    BY <1>1 DEF PreflightInv, FactsTyped
  <2> QED BY <1>1, <2>1 DEF PreflightInv, FactsTyped
<1>3. /\ \A f \in Facts : seen[f] \subseteq seen'[f]
      /\ \A f \in Facts : facts[f] \in seen[f] => facts'[f] \in seen'[f]
      /\ facts'[g] \in seen'[g]
  BY <1>1, <1>2 DEF PreflightInv, FactsTyped
<1>4. SnapshotFits'
  BY <1>1, <1>3, SeenGrows DEF PreflightInv
<1>5. ASSUME ObservingFits PROVE ObservingFits'
  <2>1. \A f \in Facts : facts'[f] \in seen'[f]
    BY <1>3, <1>5 DEF ObservingFits
  <2>2. \A k \in observing'.listed :
          k \in DeviceKinds /\ TRUE \in seen'[<<k, "available">>]
    BY <1>1, <1>3, <1>5, FactsAre DEF ObservingFits
  <2>3. (\A i \in 1 .. observing.device - 1 :
           Covered(Devices[i], observing.safety))'
    <3>1. ASSUME NEW i \in 1 .. observing.device - 1
          PROVE  Covered(Devices[i], observing.safety)'
      <4>1. Devices[i] \in DeviceKinds /\ Covered(Devices[i], observing.safety)
        BY <1>5, DeviceKindsAre DEF ObservingFits
      <4> QED BY <1>1, <1>3, <4>1, SeenGrows
    <3> QED BY <1>1, <3>1
  <2>4. \A c \in observing'.safety : CheckFits(c)'
    BY <1>1, <1>3, <1>5, SeenGrows DEF ObservingFits
  <2>5. ASSUME observing.device <= Len(Devices)
        PROVE  ReadSoFar(Devices[observing.device])'
    <3> DEFINE kind == Devices[observing.device]
    <3>1. ReadSoFar(kind) /\ kind \in DeviceKinds
      BY <1>5, <2>5, DeviceKindsAre DEF ObservingFits
    <3>2. ASSUME NEW j \in 1 .. observing.read - 1
          PROVE  observing.values[j] \in seen'[<<kind, Reads(kind)[j]>>]
      <4>1. j \in 1 .. Len(Reads(kind)) - 1
        BY <3>1, ReadsAre DEF ReadSoFar
      <4>2. <<kind, Reads(kind)[j]>> \in Facts
        BY <3>1, <4>1, FactsAre
      <4> QED BY <1>3, <3>1, <4>2 DEF ReadSoFar
    <3>3. Reads(Devices[observing.device])' = Reads(kind)
      BY <1>1 DEF Reads
    <3> QED BY <1>1, <3>1, <3>2, <3>3 DEF ReadSoFar
  <2> QED BY <1>1, <1>5, <2>1, <2>2, <2>3, <2>4, <2>5 DEF ObservingFits
<1> QED BY <1>1, <1>2, <1>4, <1>5 DEF PreflightInv

\* Checks of what was read.
ValuesFit(kind, values) ==
  /\ values \in Seq(BOOLEAN) /\ Len(values) \in 1 .. Len(Reads(kind))
  /\ \A j \in 1 .. Len(values) : Reads(kind)[j] # "facts" =>
       values[j] \in seen[<<kind, Reads(kind)[j]>>]

LEMMA ChecksAre ==
  ASSUME NEW kind, NEW values \in Seq(BOOLEAN)
  PROVE  Preflight!Checks(kind, values) =
           {<<kind, Reads(kind)[j], IF values[j] THEN "ready" ELSE "blocked">> :
              j \in {i \in 1 .. Len(values) : Reads(kind)[i] # "facts"}}
BY DEF Preflight!Checks, Preflight!State, Reads

LEMMA ChecksFit ==
  ASSUME NEW kind \in DeviceKinds, NEW values, ValuesFit(kind, values)
  PROVE  /\ \A c \in Preflight!Checks(kind, values) : CheckFits(c)
         /\ \E c \in Preflight!Checks(kind, values) : c[1] = kind
<1>1. ASSUME NEW c \in Preflight!Checks(kind, values) PROVE CheckFits(c)
  <2>1. PICK j \in 1 .. Len(values) :
          /\ Reads(kind)[j] # "facts"
          /\ c = <<kind, Reads(kind)[j],
                   IF values[j] THEN "ready" ELSE "blocked">>
    BY ChecksAre DEF ValuesFit
  <2>2. /\ c[1] = kind /\ c[2] = Reads(kind)[j]
        /\ c[3] = IF values[j] THEN "ready" ELSE "blocked"
    BY <2>1
  <2>3. j \in 1 .. Len(Reads(kind)) - 1
    BY <2>1, ReadsAre DEF ValuesFit
  <2>4. <<kind, Reads(kind)[j]>> \in Facts
    BY <2>3, FactsAre
  <2>5. values[j] \in BOOLEAN /\ values[j] \in seen[<<kind, Reads(kind)[j]>>]
    BY <2>1 DEF ValuesFit
  <2>6. ~values[j] => FALSE \in seen[<<kind, Reads(kind)[j]>>]
    BY <2>5
  <2> QED BY <2>2, <2>4, <2>6 DEF CheckFits
<1>2. \E c \in Preflight!Checks(kind, values) : c[1] = kind
  <2> DEFINE c == <<kind, Reads(kind)[1],
                    IF values[1] THEN "ready" ELSE "blocked">>
  <2>1. 1 \in 1 .. Len(values) /\ Reads(kind)[1] # "facts"
    BY ReadsAre DEF ValuesFit
  <2>2. c \in Preflight!Checks(kind, values) /\ c[1] = kind
    BY <2>1, ChecksAre DEF ValuesFit
  <2> QED BY <2>2
<1> QED BY <1>1, <1>2

LEMMA FactReadKeeps ==
  ASSUME Preflight!AlpacaPreflightOK, PreflightInv, NEW kind,
         Preflight!Read(kind)
  PROVE  PreflightInv'
<1> DEFINE read == observing.read
           fact == Reads(kind)[read]
           values == Append(observing.values,
                            IF fact = "facts" THEN TRUE
                            ELSE facts[<<kind, fact>>])
<1>1. /\ observing.device \in 1 .. Len(Devices) /\ Len(Devices) \in Nat
      /\ kind = Devices[observing.device] /\ kind \in observing.listed
  BY DeviceKindsAre DEF Preflight!Read, Preflight!Reading,
    Preflight!AlpacaPreflightOK
<1>2. ObservingFits /\ ReadSoFar(kind) /\ kind \in DeviceKinds
  <2>1. observing # Preflight!Rest
    BY <1>1 DEF Preflight!Rest
  <2>2. ObservingFits
    BY <2>1 DEF PreflightInv
  <2>3. ReadSoFar(kind)
    BY <1>1, <2>2 DEF ObservingFits
  <2> QED BY <1>1, <2>2, <2>3, DeviceKindsAre
<1>3. /\ read \in 1 .. Len(Reads(kind)) /\ Len(Reads(kind)) \in Nat
      /\ Len(observing.values) = read - 1 /\ observing.values \in Seq(BOOLEAN)
  BY <1>2, ReadsAre DEF ReadSoFar
<1>4. IF fact = "facts" THEN TRUE
      ELSE <<kind, fact>> \in Facts /\ facts[<<kind, fact>>] \in BOOLEAN
             /\ facts[<<kind, fact>>] \in seen[<<kind, fact>>]
  <2>1. CASE read = Len(Reads(kind))
    BY <2>1, ReadsAre
  <2>2. CASE read # Len(Reads(kind))
    <3>1. read \in 1 .. Len(Reads(kind)) - 1
      BY <1>3, <2>2
    <3>2. <<kind, fact>> \in Facts
      BY <1>2, <3>1, FactsAre
    <3> QED BY <1>2, <3>2 DEF ObservingFits, PreflightInv, FactsTyped
  <2> QED BY <2>1, <2>2
<1>5. /\ values \in Seq(BOOLEAN) /\ Len(values) = read
      /\ \A j \in 1 .. read - 1 : values[j] = observing.values[j]
      /\ values[read] = IF fact = "facts" THEN TRUE ELSE facts[<<kind, fact>>]
  <2> DEFINE new == IF fact = "facts" THEN TRUE ELSE facts[<<kind, fact>>]
  <2>1. new \in BOOLEAN
    BY <1>4
  <2> HIDE DEF new
  <2>2. /\ Append(observing.values, new) \in Seq(BOOLEAN)
        /\ Len(Append(observing.values, new)) = Len(observing.values) + 1
        /\ \A j \in 1 .. Len(observing.values) :
             Append(observing.values, new)[j] = observing.values[j]
        /\ Append(observing.values, new)[Len(observing.values) + 1] = new
    BY <1>3, <2>1
  <2>3. Len(observing.values) + 1 = read
    BY <1>3
  <2> QED BY <1>3, <2>2, <2>3 DEF new
<1>6. ValuesFit(kind, values)
  <2>1. ASSUME NEW j \in 1 .. read, Reads(kind)[j] # "facts"
        PROVE  values[j] \in seen[<<kind, Reads(kind)[j]>>]
    <3>1. CASE j = read
      BY <1>4, <1>5, <2>1, <3>1
    <3>2. CASE j # read
      <4>1. j \in 1 .. read - 1
        BY <1>3, <3>2
      <4> QED BY <1>2, <1>5, <4>1 DEF ReadSoFar
    <3> QED BY <3>1, <3>2
  <2> HIDE DEF values
  <2> QED BY <1>3, <1>5, <2>1 DEF ValuesFit
<1>7. IF read = Len(Reads(kind))
      THEN Preflight!Done(Preflight!Checks(kind, values))
      ELSE /\ observing' = [observing EXCEPT !.read = @ + 1, !.values = values]
           /\ UNCHANGED <<facts, snapshot, seen>>
  BY DEF Preflight!Read, Reads
<1> HIDE DEF values
<1>8. CASE read = Len(Reads(kind))
  <2> DEFINE checks == Preflight!Checks(kind, values)
  <2>1. Covered(kind, checks)
    <3>1. CASE \E j \in 1 .. read - 1 : ~values[j]
      <4>1. PICK j \in 1 .. read - 1 : ~values[j]
        BY <3>1
      <4>2. /\ Reads(kind)[j] # "facts" /\ j \in 1 .. Len(values)
            /\ values[j] = FALSE
        BY <1>3, <1>5, <1>8, <4>1, ReadsAre
      <4>3. <<kind, Reads(kind)[j], "blocked">> \in checks
        BY <1>5, <4>2, ChecksAre
      <4> QED BY <1>2, <1>6, <4>3, ChecksFit DEF Covered
    <3>2. CASE \A j \in 1 .. read - 1 : values[j]
      <4>1. ASSUME NEW f \in FactsOf(kind)
            PROVE  TRUE \in seen[<<kind, f>>]
        <5>1. CASE f = "available"
          BY <1>1, <1>2, <5>1 DEF ObservingFits
        <5>2. CASE f # "available"
          <6>1. PICK j \in 1 .. read - 1 : f = Reads(kind)[j]
            BY <1>8, <5>2, FactsAre
          <6>2. /\ values[j] = TRUE /\ Reads(kind)[j] # "facts"
                /\ j \in 1 .. Len(values)
            BY <1>3, <1>5, <1>8, <3>2, <6>1, ReadsAre
          <6> QED BY <1>6, <6>1, <6>2 DEF ValuesFit
        <5> QED BY <5>1, <5>2
      <4> QED BY <1>2, <1>6, <4>1, ChecksFit DEF Covered
    <3> QED BY <3>1, <3>2
  <2>2. Preflight!Reading(kind) /\ Preflight!Done(checks)
    BY <1>7, <1>8 DEF Preflight!Read
  <2>3. \A c \in checks : CheckFits(c)
    BY <1>2, <1>6, ChecksFit
  <2> QED BY <2>1, <2>2, <2>3, DeviceDone
<1>9. CASE read # Len(Reads(kind))
  <2>1. /\ observing'.read = read + 1 /\ observing'.values = values
        /\ observing'.device = observing.device
        /\ observing'.listed = observing.listed
        /\ observing'.safety = observing.safety
        /\ UNCHANGED <<facts, snapshot, seen>>
    <3>1. /\ observing' = [observing EXCEPT !.read = @ + 1,
                                           !.values = values]
          /\ UNCHANGED <<facts, snapshot, seen>>
      BY <1>7, <1>9
    <3> QED BY <3>1
  <2>2. ReadSoFar(Devices[observing.device])'
    <3>1. /\ read + 1 \in 1 .. Len(Reads(kind)) /\ (read + 1) - 1 = read
          /\ \A j \in 1 .. read : j \in 1 .. Len(Reads(kind)) - 1
      BY <1>3, <1>9
    <3>2. \A j \in 1 .. read :
            values[j] \in seen'[<<kind, Reads(kind)[j]>>]
      BY <1>5, <1>6, <2>1, <3>1, ReadsAre DEF ValuesFit
    <3>3. Reads(Devices[observing.device])' = Reads(kind)
      BY <1>1, <2>1 DEF Reads
    <3> QED BY <1>1, <1>5, <2>1, <3>1, <3>2, <3>3 DEF ReadSoFar
  <2>3. ObservingFits'
    BY <1>2, <2>1, <2>2 DEF ObservingFits, Covered, CheckFits
  <2> QED BY <2>1, <2>3 DEF PreflightInv, FactsTyped, SnapshotFits, CheckFits
<1> QED BY <1>8, <1>9

LEMMA FactFailsKeeps ==
  ASSUME Preflight!AlpacaPreflightOK, PreflightInv, NEW kind,
         Preflight!ReadFails(kind)
  PROVE  PreflightInv'
<1>1. Preflight!Reading(kind) /\ observing.device \in 1 .. Len(Devices)
      /\ kind = Devices[observing.device] /\ Len(Devices) \in Nat
  BY DeviceKindsAre DEF Preflight!ReadFails, Preflight!Reading,
    Preflight!AlpacaPreflightOK
<1>2. ReadSoFar(kind) /\ kind \in DeviceKinds
  <2>1. observing # Preflight!Rest
    BY <1>1 DEF Preflight!Rest
  <2>2. ObservingFits
    BY <2>1 DEF PreflightInv
  <2>3. ReadSoFar(kind)
    BY <1>1, <2>2 DEF ObservingFits
  <2> QED BY <1>1, <2>2, <2>3, DeviceKindsAre
<1>3. CASE observing.read = 1
  <2> DEFINE checks == {<<kind, "available", "unavailable">>}
  <2>1. (\A c \in checks : CheckFits(c)) /\ Covered(kind, checks)
    BY DEF CheckFits, Covered
  <2>2. Preflight!Done(checks)
    BY <1>3 DEF Preflight!ReadFails
  <2> QED BY <1>1, <2>1, <2>2, DeviceDone
<1>4. CASE observing.read # 1
  <2> DEFINE values == <<observing.values[1]>>
             first == Preflight!Checks(kind, values)
             checks == first \cup {<<kind, "facts", "unavailable">>}
  <2>1. /\ 1 \in 1 .. observing.read - 1 /\ observing.values[1] \in BOOLEAN
        /\ observing.values[1] \in seen[<<kind, Reads(kind)[1]>>]
    BY <1>2, <1>4, ReadsAre DEF ReadSoFar
  <2>2. values \in Seq(BOOLEAN) /\ Len(values) = 1
        /\ values[1] = observing.values[1]
    BY <2>1
  <2>3. ValuesFit(kind, values)
    <3>1. 1 \in 1 .. Len(Reads(kind)) /\ \A j \in 1 .. 1 : j = 1
      BY ReadsAre
    <3> HIDE DEF values
    <3> QED BY <2>1, <2>2, <3>1 DEF ValuesFit
  <2>4. Preflight!Done(checks)
    BY <1>4 DEF Preflight!ReadFails
  <2> HIDE DEF values
  <2>5. \A c \in first : CheckFits(c)
    BY <1>2, <2>3, ChecksFit
  <2> HIDE DEF first
  <2>6. \A c \in checks : CheckFits(c)
    <3>1. CheckFits(<<kind, "facts", "unavailable">>)
      BY DEF CheckFits
    <3> QED BY <2>5, <3>1
  <2>7. Covered(kind, checks)
    <3>1. /\ <<kind, "facts", "unavailable">> \in checks
          /\ <<kind, "facts", "unavailable">>[1] = kind
          /\ <<kind, "facts", "unavailable">>[3] = "unavailable"
      OBVIOUS
    <3> HIDE DEF checks
    <3> QED BY <3>1 DEF Covered
  <2> HIDE DEF checks
  <2> QED BY <1>1, <2>4, <2>6, <2>7, DeviceDone
<1> QED BY <1>3, <1>4

LEMMA PreflightKeeps ==
  Preflight!AlpacaPreflightOK /\ PreflightInv
    /\ [Preflight!Next]_Preflight!preflightVars => PreflightInv'
<1> SUFFICES ASSUME Preflight!AlpacaPreflightOK, PreflightInv,
                    [Preflight!Next]_Preflight!preflightVars
             PROVE  PreflightInv'
  OBVIOUS
<1>1. ASSUME NEW kind, \/ Preflight!Missing(kind) \/ Preflight!Read(kind)
                       \/ Preflight!ReadFails(kind)
      PROVE  PreflightInv'
  BY <1>1, MissingKeeps, FactReadKeeps, FactFailsKeeps
<1>2. ASSUME NEW f \in Facts, Preflight!Changes(f)
      PROVE  PreflightInv'
  BY <1>2, ChangesKeeps
<1>3. CASE UNCHANGED Preflight!preflightVars
  <2>1. UNCHANGED <<facts, observing, snapshot, seen>>
    BY <1>3 DEF Preflight!preflightVars
  <2>2. ObservingFits => ObservingFits'
    BY <2>1 DEF ObservingFits, Covered, CheckFits, ReadSoFar
  <2> QED BY <2>1, <2>2 DEF PreflightInv, FactsTyped, SnapshotFits, CheckFits
<1> QED BY <1>1, <1>2, <1>3, PreflightBegins, UnavailableKeeps, ConcludeKeeps
      DEF Preflight!Next, Facts

LEMMA PreflightTruth == PreflightInv => Preflight!VerdictIsSeen
<1> SUFFICES ASSUME PreflightInv PROVE Preflight!VerdictIsSeen
  OBVIOUS
<1>1. \A c \in snapshot.safety :
        c[3] = "blocked" => FALSE \in seen[<<c[1], c[2]>>]
  BY DEF PreflightInv, SnapshotFits, CheckFits
<1> QED BY <1>1 DEF PreflightInv, SnapshotFits, Facts, DeviceKinds,
  Preflight!VerdictIsSeen

(* Whatever requests, aborts, restarts, cut connections and selected         *)
(* scenarios fall between the camera's decision and its answer, a caller is  *)
(* told what the camera did and reads a whole image; and whatever the rig    *)
(* does while it is observed, a verdict speaks of what was seen              *)
(* (commandOutcome, readBoundedBytes, observe).                              *)
THEOREM ProvidersStayTruthful == RigSpec => []ProvidersTellTruth
<1>1. Camera!Init => CameraInv
  BY RigAssumption, CameraStarts, LonelyStarts DEF CameraInv
<1>2. Preflight!Init => PreflightInv
  BY PreflightStarts
<1>3. PreflightInv /\ [Preflight!Next]_Preflight!preflightVars => PreflightInv'
  BY RigAssumption, PreflightKeeps
<1>4. CameraInv /\ PreflightInv => ProvidersTellTruth
  BY CameraTruth, PreflightTruth DEF ProvidersTellTruth
<1> QED BY <1>1, <1>2, <1>3, <1>4, CameraKeeps, PTL
      DEF RigSpec, Camera!Spec, Preflight!Spec
=============================================================================
