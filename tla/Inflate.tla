------------------------------- MODULE Inflate -------------------------------
(***************************************************************************)
(* The integrity check of one deflated member (src/ios_rehydrate/ipa.py,   *)
(* _validate_deflated_payload): it feeds the compressed bytes in chunks to *)
(* a decompressor and takes at most output_limit bytes at a time.          *)
(*                                                                         *)
(* A member is the sequence of outputs of its compressed bytes.  The       *)
(* decompressor (zlib, external) takes in a byte as soon as the outputs of *)
(* the bytes before it are delivered, and keeps what does not fit inside.  *)
(***************************************************************************)
EXTENDS Integers, Sequences

CONSTANTS
  INTEGRITY_CHUNK, \* _INTEGRITY_CHUNK_BYTES
  Corrupt          \* the output of a byte no deflate stream has there

VARIABLES
  member,   \* outputs, ending, file_size, crc
  cursor,   \* compressed bytes fed so far
  pending,  \* of these, the bytes the decompressor has not taken in
  produced, \* output so far
  found     \* what the check says of the member

vars == <<member, cursor, pending, produced, found>>

\* The last byte of the deflate stream is number ending; a number beyond the
\* payload means that it is cut off.
Length    == Len(member.outputs)

\* What the first bytes of a payload expand to, for every number of them.
Outputs(m) ==
  LET total[p \in 0..Len(m.outputs)] ==
        IF p = 0 THEN 0 ELSE total[p - 1] + m.outputs[p]
  IN total

Output(p) == Outputs(member)[p]
Taken     == cursor - pending
Inside    == Output(Taken) - produced
AtEof     == Taken = member.ending /\ Inside = 0

Smaller(x, y) == IF x < y THEN x ELSE y
\* Mutant: no byte more than declared; 0 would mean no limit at all.
LimitExact == Smaller(INTEGRITY_CHUNK, member.file_size - produced)

Limit == Smaller(INTEGRITY_CHUNK, member.file_size - produced + 1)

Begins(m) ==
  /\ member' = m /\ cursor' = 0 /\ pending' = 0 /\ produced' = 0
  /\ found' = "reading"

Says(what) == found' = what /\ UNCHANGED <<member, cursor, pending, produced>>

TakesChunk ==
  /\ found = "reading" /\ pending = 0 /\ cursor < Length
  /\ cursor' = Smaller(cursor + INTEGRITY_CHUNK, Length)
  /\ pending' = cursor' - cursor
  /\ UNCHANGED <<member, produced, found>>

\* One call of decompress, with at least one byte pending.
Stop == Smaller(cursor, member.ending)
\* The bytes whose output still fits.
Fitting ==
  {p \in Taken..Stop :
     /\ \A q \in (Taken + 1)..p : member.outputs[q] # Corrupt
     /\ Output(p) <= produced + Limit}
LastFitting == CHOOSE p \in Fitting : \A q \in Fitting : q <= p
HitsCorrupt ==
  /\ Fitting # {} /\ LastFitting < Stop
  /\ member.outputs[LastFitting + 1] = Corrupt
\* The next byte is taken in although its output does not fit.
TakenAfter ==
  IF Fitting = {} THEN Taken ELSE Smaller(LastFitting + 1, Stop)
ProducedAfter ==
  IF Fitting # {} /\ LastFitting = Stop THEN Output(Stop) ELSE produced + Limit
EofAfter ==
  TakenAfter = member.ending /\ Output(TakenAfter) = ProducedAfter

\* Mutant: the tail the call left is not what is fed next.
DecompressesAgain ==
  /\ found = "reading" /\ pending > 0
  /\ IF HitsCorrupt THEN Says("IPA_ZIP_DATA_INVALID")
     ELSE /\ produced' = ProducedAfter /\ UNCHANGED <<member, cursor>>
          /\ IF ProducedAfter > member.file_size
             THEN found' = "IPA_ZIP_SIZE_MISMATCH" /\ UNCHANGED pending
             ELSE pending' = (IF EofAfter THEN 0 ELSE pending) /\ UNCHANGED found

\* What is delivered counts before the call is judged.
Decompresses ==
  /\ found = "reading" /\ pending > 0
  /\ IF HitsCorrupt THEN Says("IPA_ZIP_DATA_INVALID")
     ELSE /\ produced' = ProducedAfter /\ UNCHANGED <<member, cursor>>
          /\ IF ProducedAfter > member.file_size
             THEN found' = "IPA_ZIP_SIZE_MISMATCH" /\ UNCHANGED pending
             ELSE IF \/ EofAfter /\ (cursor > TakenAfter \/ cursor # Length)
                     \/ TakenAfter = Taken /\ ProducedAfter = produced
             THEN found' = "IPA_ZIP_DATA_INVALID" /\ UNCHANGED pending
             ELSE pending' = cursor - TakenAfter /\ UNCHANGED found

EndsPayload ==
  /\ found = "reading" /\ pending = 0 /\ cursor = Length
  /\ Says(IF ~AtEof \/ produced # member.file_size
          THEN "IPA_ZIP_SIZE_MISMATCH"
          ELSE IF ~member.crc THEN "IPA_CRC_MISMATCH" ELSE "intact")

Inflates == TakesChunk \/ Decompresses \/ EndsPayload

\* The reference: the stream ends with the payload, and what it expands to is
\* what the directory declares.
Intact(m) ==
  /\ m.ending = Len(m.outputs) /\ m.crc
  /\ \A p \in 1..m.ending : m.outputs[p] # Corrupt
  /\ Outputs(m)[Len(m.outputs)] = m.file_size
=============================================================================
