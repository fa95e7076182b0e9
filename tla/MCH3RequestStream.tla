------------------------- MODULE MCH3RequestStream -------------------------
(* Instances of H3RequestStream: what a peer may send on one stream.         *)
EXTENDS H3RequestStream

CONSTANT MaxFrames   \* frames on a request stream

Frame(type, body) == [type |-> type, length |-> Len(body), body |-> body]

CapA == << "capsule", "a", 1 >>
ValA == << "value", "a" >>
CapB == << "capsule", "b", 0 >>

(* Capsules within a frame and across two, field sections for WebTransport  *)
(* and not, a frame to skip and one without a body.                         *)
Frames ==
    {Frame("DATA", b) : b \in {<< >>, << CapB >>, << CapA >>, << ValA, CapB >>}}
        \cup {Frame("HEADERS", << << "fields", x >> >>) : x \in {"webtransport", "plain"}}
        \cup {Frame("UNKNOWN", << << "filler" >> >>)}

(* One of each kind of refusal; what follows is not parsed.                 *)
Refused ==
    {Frame("DATA", << << "capsule", "c", SizeLimit + 1 >> >>),
     Frame("HEADERS", << << "fields", "invalid" >> >>),
     Frame("SETTINGS", << << "filler" >> >>)}
        \cup {[type |-> t, length |-> SizeLimit + 1, body |-> << << "filler" >> >>] :
                 t \in {"HEADERS", "UNKNOWN"}}

(* The DATA after the headers is a sequence of capsules.                    *)
IsHeaders(f) == f.type = "HEADERS"
WellFormed(frames) ==
    LET h     == SelectInSeq(frames, IsHeaders)
        after == IF h = 0 THEN << >> ELSE SubSeq(frames, h + 1, Len(frames))
        data  == SelectSeq(after, LAMBDA f : f.type = "DATA")
        units == FlattenSeq([i \in DOMAIN data |-> data[i].body])
    IN \A i \in DOMAIN units :
           (i > 1 /\ units[i - 1] = CapA) <=> units[i] = ValA

(* The peer may stop anywhere, so that shorter scripts add nothing.         *)
MCScripts ==
    {f \in TupleOf(Frames, MaxFrames)
            \cup {Append(g, x) : g \in SeqOf(Frames, MaxFrames - 1), x \in Refused} :
        WellFormed(f)}

MCHeaders ==
    {<< << "more" >>, << "type", "WT_STREAM" >>, << "more" >>, << "session", x >>, << "data", "valid" >> >> :
        x \in {"valid", "invalid"}}
=============================================================================
