------------------------------- MODULE MC_Config -------------------------------
(* Instances of Config for TLC: what may be typed, and the files there are. *)
EXTENDS Config, TLC

Own == <<"here", "own.conf">>
More == <<"here", "more.conf">>
Line(name, value) == [name |-> name, value |-> value]

Words == {Line("", "stream"), Line("", "map"), Line("", "there")}
Opts == Words \cup
        {Line("1080", ""), Line("nosops", ""), Line("forcehevc", ""),
         Line("mapping", "pad.map"), Line("mapping", "lost.map"), Line("input", "event1"),
         Line("config", Own), Line("save", Own)}

(* With or without a file of the user, of the system, of the host.         *)
Disk(user, own, host) ==
    (IF user = <<>> THEN <<"system", "moonlight.conf">> :> <<Line("fps", 30), Line("platform", "aml")>>
     ELSE <<"user", "moonlight.conf">> :> user) @@
    (Own :> own) @@ (More :> <<Line("sops", "true"), Line("width", 1920), Line("mapping", "pad.map")>>) @@
    (IF host = <<>> THEN <<"user", "pad.map">> :> <<>> ELSE <<"hosts", "there">> :> host) @@
    (<<"system", "pad.map">> :> <<>>) @@ (<<"system", "default.map">> :> <<>>)

SomeDisks ==
    {Disk(<<>>,
          <<Line("sops", "true"), Line("config", More), Line("nosops", ""), Line("width", 1366),
            Line("input", "event2")>>,
          <<Line("height", 1080), Line("bitrate", -1), Line("platform", "sdl")>>),
     Disk(<<Line("address", "there"), Line("height", 1080), Line("bitrate", 8000), Line("localaudio", "true")>>,
          <<Line("fps", 30), Line("localaudio", "false"), Line("save", Own)>>,
          <<>>)}
==============================================================================
