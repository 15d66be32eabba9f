---------------------------------- MODULE QRCode ----------------------------------
(***************************************************************************)
(* QRCodeService: an envelope is cut into frames, and a list of frames, in *)
(* any order and with repetitions, is put together again, checked for its  *)
(* expiry, and its nonce marked as used.                                   *)
(*                                                                         *)
(* The same envelope may be cut with two chunk sizes: a coding is an       *)
(* envelope with the number of its frames, and frames of two codings of one*)
(* envelope carry the same id.  A hash is as good as what it is taken of.  *)
(***************************************************************************)
EXTENDS Nonces, SequencesExt

CONSTANTS
  Codings,     \* [envelope, total, cut]: cut tells two chunk sizes apart
  Unsafe,      \* envelopes of other makers, whose payload is not of a permitted kind
  Validity,    \* ticks until an envelope expires
  MaxFrames    \* bound: frames in a list

ASSUME QRAssumption == Validity \in Nat /\ \A c \in Codings : c.total \in Nat \ {0}

VARIABLES
  made,      \* the expiry of an envelope, or 0 before it is made
  frames,    \* the frames scanned so far
  opening,   \* decode_chunks between the check of the expiry and the mark: a set of at most one envelope
  opened,    \* history: how often an envelope was opened
  overdue    \* history: envelopes that expired while they were opened

qrVars == <<made, frames, opening, opened, overdue>>

Envelopes == {c.envelope : c \in Codings}

\* What encode_chunks writes, and the same with a part that was misread.
FramesOf(c) == [coding : {c}, index : 1..c.total, intact : BOOLEAN]
Id(f) == f.coding.envelope
Data(f) == <<f.coding, f.index>>

--------------------------------------------------------------------------------
\* decode_chunks

NothingRead == [ok |-> TRUE, first |-> {}, parts |-> {}]
Refused == [ok |-> FALSE, first |-> {}, parts |-> {}]

\* The first frame says which envelope and how many parts; the others have to agree.
Belongs(read, f) == \A g \in read.first : Id(g) = Id(f) /\ g.coding.total = f.coding.total
Disagrees(read, f) == \E g \in read.parts : g.index = f.index /\ Data(g) # Data(f)

TakeFrame(read, f) ==
  IF read.ok /\ f.intact /\ Belongs(read, f) /\ ~Disagrees(read, f)
  THEN [ok |-> TRUE,
        first |-> IF read.first = {} THEN {f} ELSE read.first,
        parts |-> read.parts \cup {f}]
  ELSE Refused

\* The loop over the list: what has been read after so many frames.
ReadUpTo(list) ==
  LET upto[n \in 0..Len(list)] == IF n = 0 THEN NothingRead ELSE TakeFrame(upto[n - 1], list[n])
  IN upto
Read(list) == ReadUpTo(list)[Len(list)]

Complete(read) ==
  \E g \in read.first : {f.index : f \in read.parts} = 1..g.coding.total

\* The hash of what was put together is the id only if all of it was cut alike.
HashAgrees(read) == \A f, g \in read.parts : f.coding = g.coding

\* A slip: the parts are not compared with the id.
DecodeUnchecked(list) ==
  LET read == Read(list)
  IN IF read.ok /\ Complete(read) THEN {Id(f) : f \in read.parts} ELSE {}

\* The envelope the list is put together to, as a set of at most one.
Decode(list) ==
  LET read == Read(list)
  IN IF read.ok /\ Complete(read) /\ HashAgrees(read) THEN {Id(f) : f \in read.parts} ELSE {}

--------------------------------------------------------------------------------

QRInit ==
  /\ made = [e \in Envelopes |-> 0]
  /\ frames = << >>
  /\ opening = {}
  /\ opened = [e \in Envelopes |-> 0]
  /\ overdue = {}

\* create_payload, which "refresh" calls again for a new envelope.
CreatePayload(e) ==
  /\ made[e] = 0
  /\ made' = [made EXCEPT ![e] = now + Validity]
  /\ UNCHANGED <<now, nonces, frames, opening, opened, overdue>>

Scan(c) ==
  /\ opening = {} /\ Len(frames) < MaxFrames /\ made[c.envelope] > 0
  /\ \E f \in FramesOf(c) : frames' = Append(frames, f)
  /\ UNCHANGED <<now, nonces, made, opening, opened, overdue>>

\* decode_chunks up to the expiry; a list that is refused, or an envelope too old, ends it.
Open ==
  /\ opening = {} /\ frames # << >>
  /\ opening' = {e \in Decode(frames) : made[e] > now}
  /\ frames' = IF opening' = {} THEN << >> ELSE frames
  /\ UNCHANGED <<now, nonces, made, opened, overdue>>

\* What create_payload and the receiver ask of the kind of a payload.
Permitted(e) == e \notin Unsafe

\* The nonce is marked, and the kind of the payload looked at after that.
MarkOpened ==
  /\ opening # {}
  /\ LET e == CHOOSE x \in opening : TRUE
     IN IF NonceUsed(e)
        THEN nonces' = Kept /\ UNCHANGED <<opened, overdue>>
        ELSE /\ MarkNonce(e, made[e])
             /\ opened' = IF Permitted(e) THEN [opened EXCEPT ![e] = @ + 1] ELSE opened
             /\ overdue' = IF made[e] <= now THEN overdue \cup {e} ELSE overdue
  /\ opening' = {} /\ frames' = << >>
  /\ UNCHANGED <<now, made>>

QRNext ==
  \/ Tick /\ UNCHANGED qrVars
  \/ \E e \in Envelopes : CreatePayload(e)
  \/ \E c \in Codings : Scan(c)
  \/ Open \/ MarkOpened

--------------------------------------------------------------------------------

QRSpec == QRInit /\ NoncesInit /\ [][QRNext]_<<now, nonces, qrVars>>

--------------------------------------------------------------------------------

\* A list of frames is put together exactly when all are intact, were cut from one envelope
\* in one way and none is missing; the order and the repetitions do not matter.
FramesSound ==
  Decode(frames) =
    {c.envelope : c \in
       {d \in Codings : \A f \in ToSet(frames) : f.intact /\ f.coding = d} \cap
       {d \in Codings : {f.index : f \in ToSet(frames)} = 1..d.total}}

\* An envelope is opened once, unless it expired while it was opened, and never one whose
\* payload is not of a permitted kind.
OpenedOnce ==
  \A e \in Envelopes : (opened[e] <= 1 \/ e \in overdue) /\ (e \in Unsafe => opened[e] = 0)
================================================================================
