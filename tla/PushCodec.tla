------------------------------ MODULE PushCodec -----------------------------
(***************************************************************************)
(* What a push carries: the payload sealed for one subscription (RFC 8291, *)
(* aes128gcm), and the forms the server's key pair is kept in.  Hashes,    *)
(* HKDF and AES-GCM are terms: two of them are equal if they are made of   *)
(* the same things.  Bytes are small numbers, sizes are parameters.        *)
(***************************************************************************)
EXTENDS Naturals, SequencesExt

CONSTANTS
  RecordSize,   \* 4096: the record size written into the header
  KeyLen,       \* 32: bytes of a private key and of half a signature
  Invalid       \* an error

ASSUMPTION SizesAssumption == KeyLen \in Nat \ {0}

\* An error is neither bytes nor a public key.
ASSUMPTION InvalidAssumption == Invalid \notin Seq(Nat) /\ Invalid \notin {"P"} \X Seq(Nat)

-----------------------------------------------------------------------------
(* EncryptPayload, DecryptPayload.  A key pair has one name for both halves. *)

\* The shared secret is the same from either side.
Ecdh(a, b) == {a, b}

ContentKey(secret, auth, ua, as, salt) == <<"cek", secret, auth, ua, as, salt>>

Delimiter == 2

Record(plaintext) == Append(plaintext, Delimiter)

\* A subscription's key: 65 bytes, of which the first says that the point is
\* not compressed, and a point of the curve.
IsKey(ua) == ua.length = 65 /\ ua.first = 4

EncryptPayload(ua, auth, as, salt, plaintext) ==
  IF ~IsKey(ua) \/ auth.length # 16 \/ ~ua.onCurve THEN Invalid
  ELSE [salt |-> salt, rs |-> RecordSize, keyid |-> as,
        key |-> ContentKey(Ecdh(as, ua), auth, ua, as, salt),
        record |-> Record(plaintext)]

\* The record without its padding and its delimiter.
Unpadded(record) ==
  LET last == {i \in DOMAIN record : record[i] # 0 /\ \A j \in DOMAIN record : j > i => record[j] = 0}
  IN IF \E i \in last : record[i] \in {1, 2}
     THEN SubSeq(record, 1, (CHOOSE i \in last : TRUE) - 1) ELSE Invalid

\* Too short for a delimiter and a tag; a key that does not open it; no
\* delimiter.  The header's record size is not looked at.
DecryptPayload(ua, auth, msg) ==
  IF Len(msg.record) < 1 THEN Invalid
  ELSE IF msg.key # ContentKey(Ecdh(ua, msg.keyid), auth, ua, msg.keyid, msg.salt) THEN Invalid
  ELSE Unpadded(msg.record)

\* A payload, whatever bytes it ends in, comes out as it went in for the
\* subscription it was sealed for and for no other key or auth secret, and is
\* not sealed at all for what cannot be a subscription.
SealedForOne(uas, auths, ua, auth, as, salt, plaintext) ==
  LET msg == EncryptPayload(ua, auth, as, salt, plaintext) IN
  IF IsKey(ua) /\ ua.onCurve /\ auth.length = 16
  THEN \A u \in uas, a \in auths :
         DecryptPayload(u, a, msg) = IF u = ua /\ a = auth THEN plaintext ELSE Invalid
  ELSE msg = Invalid

-----------------------------------------------------------------------------
(* The key pair: newVAPIDKeysFromPrivate, LoadVAPIDKeys, SignJWT *)

\* big.Int.Bytes: a number has no leading zeros.
Bytes(d) ==
  LET first == {i \in DOMAIN d : d[i] # 0 /\ \A j \in 1..(i - 1) : d[j] = 0}
  IN IF first = {} THEN <<>> ELSE SubSeq(d, CHOOSE i \in first : TRUE, Len(d))

\* MUTANT: the bytes of the number are taken as they are.
PaddedNot(b) == b

\* Zeros are put before them up to the full length.
Padded(b) == [i \in 1..(KeyLen - Len(b)) |-> 0] \o b

\* The forms base64 comes in: DecodeBase64Flexible tries both alphabets with
\* and without padding.  A text without "-", "_", "+" and "/" is of both.
Decode(text) == IF text.alphabet \in {"url", "std", "both"} THEN text.bytes ELSE Invalid

\* GenerateVAPIDKeys or LoadVAPIDKeys: the key of a number, and what is saved.
KeyOf(d) == [d |-> Bytes(d), public |-> <<"P", Bytes(d)>>, saved |-> Padded(Bytes(d))]

LoadVAPIDKeys(public, private) ==
  LET b == Decode(private) IN
  IF b = Invalid THEN Invalid
  ELSE IF Len(b) # KeyLen THEN Invalid
  ELSE IF public # Invalid /\ public # KeyOf(b).public THEN Invalid
  ELSE KeyOf(b)

\* A key that was saved loads as the same key, whatever bytes it begins with
\* and in each form of base64, and not with another key's public half; a
\* signature always has two halves of full length (Generate, LoadFromFile).
SavedKeyLoads(d, other, alphabet) ==
  LET key == KeyOf(d)
      private == [bytes |-> key.saved, alphabet |-> alphabet]
  IN /\ alphabet # "mixed" => /\ LoadVAPIDKeys(key.public, private) = key
                              /\ LoadVAPIDKeys(Invalid, private) = key
                              /\ Bytes(other) # Bytes(d) =>
                                   LoadVAPIDKeys(KeyOf(other).public, private) = Invalid
     /\ Len(Padded(Bytes(d)) \o Padded(Bytes(other))) = 2 * KeyLen
=============================================================================
