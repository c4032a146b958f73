---------------------------- MODULE EngineeringKey ----------------------------
(* scripts/engineering_ssh_key.py: the one public key that an engineering  *)
(* image accepts.  The text of a key file is its size and its lines, a     *)
(* line its fields: the type, what the base64 decodes to, a comment.  A    *)
(* field of the decoded blob is its length, in one place instead of four   *)
(* bytes, and as many bytes.                                               *)
EXTENDS Integers, Sequences

MAX_INPUT_BYTES == 1024
MAX_COMMENT_LENGTH == 128
KeyType == <<"ssh-ed25519">>
KeyBytes == 2

Truncated == [value |-> <<>>, end |-> -1]

_read_field(blob, offset) ==
    LET end == offset + 1 + blob[offset + 1]
    IN  IF offset = -1 \/ offset + 1 > Len(blob) THEN Truncated
        ELSE IF end > Len(blob) THEN Truncated
        ELSE [value |-> SubSeq(blob, offset + 2, end), end |-> end]

IsEd25519(blob) ==
    LET type == _read_field(blob, 0)
        material == _read_field(blob, type.end)
    IN  type.value = KeyType /\ Len(material.value) = KeyBytes /\ material.end = Len(blob)

(* Whether it returns a key, instead of raising PublicKeyError. *)
parse_public_key(content) ==
    /\ content.size <= MAX_INPUT_BYTES /\ Len(content.lines) = 1
    /\ LET fields == content.lines[1]
       IN  /\ Len(fields) \in {2, 3} /\ fields[1] = KeyType[1]
           /\ fields[2].base64 /\ IsEd25519(fields[2].blob)
           /\ Len(fields) = 3 => fields[3].length <= MAX_COMMENT_LENGTH /\ fields[3].printable

(* SHA256 of the blob, which names it. *)
fingerprint(content) == content.lines[1][2].blob
=============================================================================
