--------------------------- MODULE MCChatPipeline ---------------------------
(***************************************************************************)
(* Small instances of ChatPipeline: two requests in flight, two texts that *)
(* are close to each other and a third that is not, a cache of two         *)
(* entries, two further tiers.                                             *)
(***************************************************************************)
EXTENDS ChatPipeline

CONSTANTS t1, t2, t3, r1

MCTexts == {t1, t2, t3}

\* t1 and t2 are paraphrases; a text is closest to itself.
MCSimilarity ==
    [t \in MCTexts |-> [u \in MCTexts |->
        IF t = u THEN 2 ELSE IF t3 \in {t, u} THEN 0 ELSE 1]]

Kind(text, stream, tools, cascade, skip) ==
    [text |-> text, stream |-> stream, tools |-> tools, cascade |-> cascade, skip |-> skip]

Plain == {Kind(t1, FALSE, FALSE, FALSE, FALSE)}

Other ==
    {Kind(t2, FALSE, FALSE, FALSE, TRUE), Kind(t3, FALSE, FALSE, FALSE, FALSE),
     Kind(t1, TRUE, TRUE, FALSE, FALSE), Kind(NoText, FALSE, FALSE, TRUE, FALSE)}

\* One slot takes plain requests for a text.  The other takes its paraphrase,
\* by somebody who skips the guard, a guarded request for a text that is not
\* close, a guarded stream with tools, and a cascade for a conversation without
\* user text.  Streams and cascades do not meet other requests.
MCKinds == [r \in Requests |-> IF r = r1 THEN Other ELSE Plain]
=============================================================================
