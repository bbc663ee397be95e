----------------------------- MODULE MediaCodec -----------------------------
(***************************************************************************)
(* What is done to session descriptions and candidates on their way: the   *)
(* page tunes the Opus parameters of each offer and answer and orders the  *)
(* video codecs, the server takes out candidates without an IP address.    *)
(* Each page tunes the descriptions it makes itself, and a browser may     *)
(* make the next from the last, so tuning is also run on its own output;   *)
(* so is the filter, which a description can pass more than once.          *)
(***************************************************************************)
EXTENDS Naturals, SequencesExt

CONSTANT Refused   \* the message is not relayed

NoValue == "no value"

\* filter: the elements of s at the places in I, in their order.
Picked(s, I) ==
  LET kept[n \in 0..Len(s)] ==
        IF n = 0 THEN <<>>
        ELSE IF n \in I THEN Append(kept[n - 1], s[n]) ELSE kept[n - 1]
  IN kept[Len(s)]

-----------------------------------------------------------------------------
(* Opus: mergeFmtpParams, enhanceOpusSDP *)

\* A parameter is a key, in either case, with a value or without one; a Map
\* keeps a key where it first came, with the value it last got.
Lower(k) == IF k = "STEREO" THEN "stereo" ELSE k

MapSet(map, p) ==
  LET at == {i \in DOMAIN map : map[i].k = Lower(p.k)}
  IN IF at = {} THEN Append(map, [k |-> Lower(p.k), v |-> p.v])
     ELSE [i \in DOMAIN map |-> IF i \in at THEN [map[i] EXCEPT !.v = p.v] ELSE map[i]]

opusParams ==
  << [k |-> "useinbandfec", v |-> "1"], [k |-> "usedtx", v |-> "1"],
     [k |-> "stereo", v |-> "0"], [k |-> "sprop-stereo", v |-> "0"],
     [k |-> "maxaveragebitrate", v |-> "28000"], [k |-> "cbr", v |-> "0"] >>

\* MUTANT: the wanted parameters are put behind the ones that are there.
MergeAppends(existing) == existing \o opusParams

\* The map after each of the parameters was set in it.
SetAll(params) ==
  LET map[n \in 0..Len(params)] ==
        IF n = 0 THEN <<>> ELSE MapSet(map[n - 1], params[n])
  IN map[Len(params)]

mergeFmtpParams(existing) == SetAll(existing \o opusParams)

\* Lines of a description: the rtpmap of Opus for a payload type, the fmtp of a
\* payload type, or anything else.
IsOpus(line, pt) == line.is = "opus" /\ line.pt = pt
IsFmtp(line, pt) == line.is = "fmtp" /\ line.pt = pt
Fmtp(pt, params) == [is |-> "fmtp", pt |-> pt, params |-> params]

OpusLines(lines) == {i \in DOMAIN lines : lines[i].is = "opus"}
OpusPt(lines) == lines[CHOOSE i \in OpusLines(lines) : \A j \in OpusLines(lines) : i <= j].pt

\* The lines, with an fmtp behind each rtpmap of Opus for pt.
WithFmtp(lines, pt) ==
  LET added[n \in 0..Len(lines)] ==
        IF n = 0 THEN <<>>
        ELSE added[n - 1] \o (IF IsOpus(lines[n], pt) THEN <<lines[n], Fmtp(pt, opusParams)>>
                                                      ELSE <<lines[n]>>)
  IN added[Len(lines)]

\* Every fmtp line of the first Opus payload type is merged, or one is put
\* behind its rtpmap.
enhanceOpusSDP(lines) ==
  LET pt == OpusPt(lines)
      merged == [i \in DOMAIN lines |->
                   IF IsFmtp(lines[i], pt) THEN Fmtp(pt, mergeFmtpParams(lines[i].params))
                                           ELSE lines[i]]
  IN IF OpusLines(lines) = {} THEN lines
     ELSE IF \E i \in DOMAIN lines : IsFmtp(lines[i], pt) THEN merged ELSE WithFmtp(lines, pt)

\* The description is tuned, in every line that speaks of the payload type,
\* with each key once; what else it says is kept, and doing it again changes
\* nothing.
OpusIsTuned(lines) ==
  LET out == enhanceOpusSDP(lines)
      pt == OpusPt(lines)
      Others(s) == Picked(s, {i \in DOMAIN s : ~IsFmtp(s[i], pt)})
      fmtps == {i \in DOMAIN out : IsFmtp(out[i], pt)}
      Keys(params) == {params[i].k : i \in DOMAIN params}
      Kept(params) == {Lower(params[i].k) : i \in DOMAIN params}
  IN IF OpusLines(lines) = {} THEN out = lines
     ELSE /\ Others(out) = Others(lines)
          /\ fmtps # {}
          /\ \A i \in fmtps :
               /\ ToSet(opusParams) \subseteq ToSet(out[i].params)
               /\ IsInjective([n \in DOMAIN out[i].params |-> out[i].params[n].k])
          /\ \A i \in DOMAIN lines : IsFmtp(lines[i], pt) =>
               Kept(lines[i].params) \subseteq Keys(out[i].params)
          /\ enhanceOpusSDP(out) = out

-----------------------------------------------------------------------------
(* preferVideoCodec *)

PREFERRED_VIDEO_CODEC == "h264"

preferVideoCodec(all) ==
  LET preferred == {i \in DOMAIN all : all[i].mime = PREFERRED_VIDEO_CODEC}
  IN Picked(all, preferred) \o Picked(all, DOMAIN all \ preferred)

\* No codec is lost or doubled, each kind keeps its order, and the preferred
\* ones come first, so that a peer without H.264 still has something in common.
CodecsAreKept(all) ==
  LET out == preferVideoCodec(all)
      Mimes(s) == {s[i].mime : i \in DOMAIN s}
      Of(m, s) == Picked(s, {i \in DOMAIN s : s[i].mime = m})
  IN /\ Len(out) = Len(all)
     /\ \A m \in Mimes(all) : Of(m, out) = Of(m, all)
     /\ PREFERRED_VIDEO_CODEC \in Mimes(all) => out[1].mime = PREFERRED_VIDEO_CODEC

-----------------------------------------------------------------------------
(* sanitizeMessage *)

\* Six fields, and an address that is an IP once its brackets and its zone are
\* taken off; a name, as of mDNS, is none.
isValidCandidate(c) == c.wellFormed /\ c.address \in {"ip", "[ip]", "ip%zone"}

\* A description is a sequence of lines and of the separators behind them.  It
\* is split at "\r\n" if it holds one, else at "\n": what a piece begins with
\* decides about the whole piece.
Pieces(sdp) == IF \E i \in DOMAIN sdp : i < Len(sdp) /\ sdp[i].sep = "crlf" THEN "crlf" ELSE "lf"

PieceOf(sdp, i) ==
  LET starts == {j \in 1..i : j = 1 \/ sdp[j - 1].sep = Pieces(sdp)}
  IN CHOOSE j \in starts : \A h \in starts : h <= j

IsBad(line) == line.is = "candidate" /\ ~isValidCandidate(line)

\* MUTANT: pieces are taken for lines that begin with "a=candidate", valid or not.
DropsPiece(sdp, i) == sdp[PieceOf(sdp, i)].is = "candidate"

Drops(sdp, i) == IsBad(sdp[PieceOf(sdp, i)])

sanitizeSDP(sdp) == Picked(sdp, {i \in DOMAIN sdp : ~Drops(sdp, i)})

sanitizeMessage(msg) ==
  CASE msg.type = "ice-candidate" ->
         IF msg.decodes /\ isValidCandidate(msg.candidate) THEN msg ELSE Refused
    [] msg.type \in {"offer", "answer"} ->
         IF msg.decodes /\ msg.description = msg.type
         THEN [msg EXCEPT !.sdp = sanitizeSDP(msg.sdp)] ELSE Refused
    [] OTHER -> Refused

MixesSeparators(sdp) ==
  \E i, j \in DOMAIN sdp : i < Len(sdp) /\ j < Len(sdp) /\ sdp[i].sep # sdp[j].sep

\* What is relayed holds no candidate without an IP address, loses nothing
\* else, is of the type it says, and passes a second time unchanged; only a
\* description that mixes its separators may keep a candidate or lose a line.
RelayedIsClean(msg) ==
  LET out == sanitizeMessage(msg) IN
  out # Refused =>
    /\ msg.type \in {"ice-candidate", "offer", "answer"}
    /\ msg.type = "ice-candidate" => isValidCandidate(out.candidate) /\ out = msg
    /\ msg.type # "ice-candidate" =>
         /\ out.description = msg.type
         /\ MixesSeparators(msg.sdp)
            \/ (out.sdp = Picked(msg.sdp, {i \in DOMAIN msg.sdp : ~IsBad(msg.sdp[i])})
               /\ sanitizeMessage(out) = out)
=============================================================================
