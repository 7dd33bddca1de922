------------------------------- MODULE MediaId -------------------------------
(***************************************************************************)
(* The media ID of a message event (media_id.go): what a download needs,   *)
(* packed into one string.  The version, the length of each field, the     *)
(* length of the file, then the fields one after the other.  Bytes and     *)
(* lengths are numbers; gzip and base64, which wrap the sequence, are left *)
(* out.                                                                    *)
(***************************************************************************)
EXTENDS Naturals, Sequences, SequencesExt

CONSTANT MaxLen  \* for each field, the longest its length bytes can tell

ASSUME MaxLenAssumption == MaxLen \in Seq(Nat) /\ MaxLen # <<>>

Version   == 1
NumFields == Len(MaxLen)
HeaderLen == NumFields + 2

NoId   == <<>>  \* the empty string
NoInfo == [fields |-> <<>>, fileLength |-> 0]
Info   == [fields: [1..NumFields -> Seq(Nat)], fileLength: Nat]

TooLong(info) == \E i \in 1..NumFields : Len(info.fields[i]) > MaxLen[i]

Header(info) ==
    <<Version>> \o [i \in 1..NumFields |-> Len(info.fields[i]) % (MaxLen[i] + 1)]
                \o <<info.fileLength>>

\* Mutation: no check, so that lengths wrap around in their bytes.
EncodeMediaIDWraps(info) == Header(info) \o FlattenSeq(info.fields)

\* EncodeMediaID with createMediaID, which turns its error into "".
EncodeMediaID(info) ==
    IF TooLong(info) THEN NoId ELSE Header(info) \o FlattenSeq(info.fields)

\* How many bytes of an ID come before field i.
Before(id, i) ==
    LET upTo[k \in 0..NumFields] == IF k = 0 THEN HeaderLen ELSE upTo[k - 1] + id[k + 1]
    IN  upTo[i - 1]

\* DecodeMediaID; a read that finds too few bytes is an error, bytes after
\* the last field are not looked at.
DecodeMediaID(id) ==
    IF Len(id) < HeaderLen \/ Head(id) # Version \/ Len(id) < Before(id, NumFields + 1)
    THEN NoInfo
    ELSE [fields     |-> [i \in 1..NumFields |-> SubSeq(id, Before(id, i) + 1, Before(id, i + 1))],
          fileLength |-> id[HeaderLen]]
=============================================================================
