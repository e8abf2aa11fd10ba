-------------------------- MODULE MCRtmpAnyClient --------------------------
(* The messages a client offers RtmpHandler in the runs. *)
EXTENDS RtmpAnyClient

\* Every command the handler acts on, a control message, and the media of a
\* publisher whose metadata names its codecs.
MCSession ==
    {NewConnectMessage, NewCreateStreamMessage(2), NewPublishMessage(3),
     NewPlayMessage(3), Command("deleteStream", 4, 0, "none", 0),
     Media("video", 1, H264),
     [Media("data", 1, H264) EXCEPT !.name = "@setDataFrame", !.code = "aac"]}

\* Messages that a handler may refuse: a connect without an application or
\* with an object that cannot be parsed, foreign codecs, a sequence header in
\* an inter frame; and those it ignores.
MCRefused ==
    {Command("connect", 1, 0, "none", 0), Command("connect", 1, 0, "garbled", 0),
     NewSetChunkSizeMessage(LargeChunkSize), NewSetBufferLengthMessage(1),
     Media("audio", 1, AAC), Media("data", 1, -1),
     [Media("data", 1, 2) EXCEPT !.name = "@setDataFrame"],
     [Media("data", 1, -1) EXCEPT !.name = "@setDataFrame", !.code = "mp3"],
     [Media("video", 1, H264) EXCEPT !.code = "header without key frame"]}

MCOffered == MCSession \cup MCRefused
=============================================================================
