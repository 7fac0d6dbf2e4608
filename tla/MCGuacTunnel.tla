---------------------------- MODULE MCGuacTunnel ----------------------------
(* GuacTunnel on streams of up to two instructions, for TLC. *)
EXTENDS GuacTunnel

\* Audio as Read expects it, at both rates; on another stream; of the type that
\* is asked for; and with a head that Read knows and a rate that it does not.
MCInstructions ==
  {<<"plain">>,
   <<"audio", 1, "L16", 44100, 2>>, <<"audio", 1, "L16", 22050, 2>>,
   <<"audio", 2, "L16", 44100, 2>>, <<"audio", 1, "L8", 44100, 2>>,
   <<"audio", 1, "L16", 48000, 1>>}
MCStreams == BoundedSeq(MCInstructions, 2)

\* Two parameters of the Config, one of them asked for, with a name that has
\* dots and a value that has a comma; and a name the Config does not have.
Dotted == << <<"host", "name">> >>
MCParameters ==
  Dotted :> << <<"10", "0", "0", "1">>, <<"x">> >> @@ Word("width") :> Word("800")
MCAsked == {<<>>, <<Word("VERSION"), Dotted>>}
=============================================================================
