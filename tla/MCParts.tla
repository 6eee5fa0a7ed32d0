------------------------------- MODULE MCParts -------------------------------
(***************************************************************************)
(* The inputs of the parts for TLC.                                         *)
(***************************************************************************)
EXTENDS DumaParts

(* The builds and environments of a program: duma_init() is only called by  *)
(* the program where the constructor has run before it.                     *)
SomeConfigs ==
  {c \in [explicit : BOOLEAN, ctor : BOOLEAN, lazy : BOOLEAN, fill : BOOLEAN,
          file : BOOLEAN, quiet : BOOLEAN, all : BOOLEAN] :
     /\ "explicit" \notin Parts => (c.explicit => c.ctor)
     /\ "explicit" \in Parts => c.explicit /\ ~ c.ctor
     /\ c.quiet => ~ c.ctor
     /\ c.all => c.fill /\ c.file}

SomeRequests == [userSize : {0, 3, 4, 5}, alignment : {1, 4}, protectBelow : BOOLEAN]
              \cup [userSize : {5}, alignment : {8}, protectBelow : {TRUE}]

SomeNumbers == {-16, -15, 0, 10}

SomePatterns ==
  LET conversions == {"%a", "%d", "%i", "%s", "%?"}
  IN  {<<a, b>> : a \in conversions, b \in conversions}
        \cup {<<"%l", "%c">>, <<"-", "%x">>}

SomeEnvironments ==
  LET texts == {<<"DUMA", "ALIGNMENT", "=">>, <<"DUMA", "ALIGNMENT">>,
                <<"DUMA", "OUTPUT", "STACKTRACE", "=">>,
                <<"DUMA", "OUTPUT", "STACKTRACE", "MAPFILE", "=">>,
                <<"DUMA", "MALLOC", "0", "STRATEGY", "=">>,
                <<"MALLOC", "0", "STRATEGY", "=">>,
                <<"DUMA", "FILL", "=">>, <<"DUMA", "SKIPCOUNT", "INIT", "=">>,
                <<"DUMA", "CHECK", "FREQ", "=", "=">>}
      lines == [text : texts, value : {-1, 0, 2, 300}]
  IN  {<<>>} \cup {<<e>> : e \in lines} \cup (lines \X lines)

SomePlatforms ==
  LET kinds == {[ints |-> <<8, 8>>, ptr |-> 8], [ints |-> <<4, 8>>, ptr |-> 8],
                [ints |-> <<4, 8>>, ptr |-> 4], [ints |-> <<4>>, ptr |-> 8]}
  IN  {[ints |-> k.ints, voidp |-> k.ptr, sizet |-> k.ptr, floats |-> {4, 8, 16},
        needs |-> [s \in {1, 2, 4, 8, 16} |-> IF s < n THEN s ELSE n],
        buffer |-> b, malloc0 |-> "distinct", attr |-> TRUE] :
         k \in kinds, n \in {1, 2, 4, 8, 16}, b \in {0, 3, 4}}

SomeOptionSets ==
  {{}, {<<"SO", "NO_LEAKDETECTION">>},
   {<<"SO", "NO_LEAKDETECTION">>, <<"LIB", "NO_LEAKDETECTION">>},
   {<<"SO", "NO_CPP_SUPPORT">>, <<"LIB", "NO_CPP_SUPPORT">>,
    <<"", "EXPLICIT_INIT">>}}

SomeMapFiles ==
  LET Line(kind) == [kind |-> kind]
      Fn(addr, internal, length) ==
        [kind |-> "entry", rvabase |-> addr, internal |-> internal,
         length |-> length]
      a == Fn(10, FALSE, 4)
      b == Fn(20, TRUE, 3)
      c == Fn(30, FALSE, 2)
      name == Line("other")
  IN  {<<Line("blank"), name, Line("address"), Line("blank"), a, b, c,
         Line("blank"), Line("other")>>,
       <<name, Line("address"), a, c, Line("blank"), Line("address"), b,
         Line("blank")>>,
       <<name, Line("address"), a, Line("bad")>>, <<name, Line("address"), a>>,
       <<name, Line("badhead"), a, Line("address"), b>>,
       <<Line("address"), a, Line("blank")>>, <<name>>}

SomeStacks == {<<5, a, b, c>> : a \in {12, 25}, b \in {12, 31, 99}, c \in {0, 9, 35}}

SomeBufferSizes == {1, 6, 9, 12, 40}

=============================================================================
