----------------------------- MODULE MCStreams -----------------------------
EXTENDS Streams

(* A merge of a callback's lines with a merge of lines and of a bare source. *)
Nested ==
  [inputs   |-> [top |-> <<"b", "inner">>, inner |-> <<"a", "c">>],
   kind     |-> [a |-> "lines", b |-> "callback", c |-> "bytes"],
   resource |-> [a |-> "input", b |-> "input", c |-> "input"],
   stop     |-> {},
   exits    |-> FALSE,
   data     |-> {[a |-> <<"x", "cr", "lf">>, b |-> <<"x">>,       c |-> <<"x">>],
                 [a |-> <<"x", "x", "x">>,   b |-> <<"lf", "x">>, c |-> <<>>],
                 [a |-> <<"lf", "bad">>,     b |-> <<>>,          c |-> <<>>]}]

(* A process between a source and the consumer, merged with another source. *)
Through(early) ==
  [inputs   |-> [top |-> <<"through", "c">>, through |-> <<"out", "feed">>],
   kind     |-> [out |-> "bytes", feed |-> "feed", c |-> "bytes"],
   resource |-> [out |-> "process", feed |-> "input", c |-> "input", sink |-> "output"],
   stop     |-> {"through"},
   exits    |-> early,
   data     |-> [out : {<<>>}, feed : {<<"x", "y">>}, c : {<<"x">>}]]

MCGraphs == {Nested, Through(FALSE), Through(TRUE)}
=============================================================================
