------------------------------- MODULE Codecs -------------------------------
(***************************************************************************)
(* The functions of MediaCodec, PushCodec and ServerConfig, each run once  *)
(* on every input of a small set.                                          *)
(***************************************************************************)
EXTENDS MediaCodec, PushCodec, ServerConfig

CONSTANTS
  MaxLines,     \* bound: lines of a description, parameters, codecs, bytes
  MaxBytes

VARIABLES what, input

codecsVars == <<what, input>>

CodecsInit == what = "nothing" /\ input = <<>>

Run(w, i) == what = "nothing" /\ what' = w /\ input' = i

Upto(S, n) == UNION {[1..m -> S] : m \in 0..n}

Params == Upto([k : {"stereo", "STEREO", "minptime"}, v : {"1", NoValue}], 2)
OpusLine == [is : {"opus"}, pt : {111, 112}] \cup [is : {"fmtp"}, pt : {111, 112}, params : {<<>>, opusParams}]
              \cup {[is |-> "other"]}
TuneOpus ==
  \/ \E s \in Upto(OpusLine, MaxLines) : Run("opus", s)
  \/ \E p \in Params : Run("opus", <<[is |-> "opus", pt |-> 111], Fmtp(111, p)>>)

OrderCodecs ==
  \E s \in Upto([mime : {"h264", "vp8", "rtx"}, profile : {1, 2}], MaxLines) : Run("codecs", s)

Candidate == [is : {"candidate"}, wellFormed : {TRUE}, address : {"ip", "name"}]
AnyCandidate == [is : {"candidate"}, wellFormed : BOOLEAN, address : {"ip", "[ip]", "ip%zone", "name"}]
SdpLine == [is : {"candidate"}, wellFormed : {TRUE}, address : {"ip", "name"}, sep : {"crlf", "lf"}]
             \cup [is : {"line"}, sep : {"crlf", "lf"}]
Relay ==
  \/ \E c \in AnyCandidate, d \in BOOLEAN :
       Run("relay", [type |-> "ice-candidate", candidate |-> c, decodes |-> d])
  \/ \E sdp \in Upto(SdpLine, MaxLines), t \in {"offer", "answer"} :
       Run("relay", [type |-> "offer", description |-> t, sdp |-> sdp, decodes |-> TRUE])
  \/ \E t \in {"answer", "leave"}, d \in BOOLEAN :
       Run("relay", [type |-> t, description |-> "answer", sdp |-> <<>>, decodes |-> d])

\* What a subscription may say of its keys; only a browser's are keys.
Key(name) == [name |-> name, length |-> 65, first |-> 4, onCurve |-> TRUE]
Auth(name) == [name |-> name, length |-> 16]
Uas == {Key("ua"), Key("other")}
Auths == {Auth("auth"), Auth("other")}
Seal ==
  \E ua \in Uas \cup [name : {"ua"}, length : {65, 64}, first : {4, 2}, onCurve : BOOLEAN],
     auth \in Auths \cup [name : {"auth"}, length : {16, 15}], p \in Upto(0..2, MaxBytes) :
    Run("seal", [ua |-> ua, auth |-> auth, payload |-> p])

\* A private key is not 0.
Scalars == {d \in [1..KeyLen -> 0..1] : \E i \in 1..KeyLen : d[i] # 0}
SaveKey ==
  \E d, e \in Scalars, a \in {"url", "std", "both", "mixed"} :
    Run("key", [d |-> d, other |-> e, alphabet |-> a])

Lists == {"stunURLs", "turnURLs"}
NoEnv == [f \in DOMAIN Defaults \cup {"iceJSON", "turnSecret"} \cup Lists |->
            IF f \in Lists THEN <<>> ELSE Unset]
Float == {Unset, Garbage, NaN, Inf, NegInf, -1, 0, 1, 2}
Configure ==
  \E r, b \in Float, g \in Upto(0..2, MaxLines) :
    Run("limits", [env |-> [NoEnv EXCEPT !.createRate = r, !.createBurst = b], gaps |-> g])

CodecsNext == TuneOpus \/ OrderCodecs \/ Relay \/ Seal \/ SaveKey \/ Configure

CodecsSpec == CodecsInit /\ [][CodecsNext]_codecsVars

-----------------------------------------------------------------------------
(* Properties *)

\* Offers and answers keep what they say when the page tunes them, once or
\* again at each renegotiation, and all codecs stay on offer
\* (enhanceOpusSDP, mergeFmtpParams, preferVideoCodec).
TunedDescriptionsAgree ==
  /\ what = "opus" => OpusIsTuned(input)
  /\ what = "codecs" => CodecsAreKept(input)

\* The server relays no candidate without an IP address and loses nothing
\* else, a description of mixed separators aside (sanitizeMessage).
RelaysCleanly == what = "relay" => RelayedIsClean(input)

\* A push opens for its subscription only and unchanged, and a saved key is
\* the same key when it is loaded (EncryptPayload, LoadVAPIDKeys).
PushSurvives ==
  /\ what = "seal" =>
       SealedForOne(Uas, Auths, input.ua, input.auth, Key("as"), "salt", input.payload)
  /\ what = "key" => SavedKeyLoads(input.d, input.other, input.alphabet)

=============================================================================
