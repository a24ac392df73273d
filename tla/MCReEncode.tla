----------------------------- MODULE MCReEncode -----------------------------
(* Calls of up to three arguments for TLC, one of each kind and length.     *)
EXTENDS ReEncode, SequencesExt

\* A type, a declared length.
MCArguments ==
  {"UINT256", "BYTES", "UINT256_ARRAY"} \X {32, 64, 96}
    \cup {<<"BYTES32", 33>>, <<"STRING_ARRAY", 128>>, <<"IT_UINT64", 128>>,
          <<"IT_UINT256", 160>>, <<"IT_STRING", 192>>, <<BadType, 32>>}

Declares(args, length) ==
  [datatypes |-> [k \in DOMAIN args |-> args[k][1]],
   datalens |-> [k \in DOMAIN args |-> args[k][2]],
   length |-> length]

\* Data as long as declared.
Exactly(args) == Declares(args, FoldLeft(LAMBDA sum, arg : sum + arg[2], 0, args))

\* Also one byte less, one more, and a length missing.
MCCalls ==
  {Exactly(args) : args \in UNION {[1 .. n -> MCArguments] : n \in 0 .. 3}}
    \cup {Declares(<<<<"UINT256", 32>>, <<"BYTES", 96>>>>, length) : length \in {127, 129}}
    \cup {[Declares(<<<<"UINT256", 32>>>>, 32) EXCEPT !.datalens = <<>>]}

=============================================================================
