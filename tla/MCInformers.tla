---------------------------- MODULE MCInformers ----------------------------
(***************************************************************************)
(* Instance of InformerFactory for TLC.                                    *)
(***************************************************************************)
EXTENDS InformerFactory

Option(kind, value) == [opt |-> kind, value |-> value]

Period(t, p) == [u \in {t} |-> p]

(* Every kind of option, the later ones overriding or completing the earlier. *)
OptionListsDef ==
  {<<Option("customResync", Period("inferenceservices", "1m")), Option("namespace", "a"),
     Option("tweak", "f"), Option("customResync", Period("models", "2m")),
     Option("transform", "g"), Option("namespace", "b")>>}
=============================================================================
