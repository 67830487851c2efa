---------------------------- MODULE MC_MixedStream ----------------------------
(* MixedStream with bytes of two bits, 2-byte words and 3-byte longs.        *)
EXTENDS MixedStream

Bool(b) == Value("bool", <<b>>)
Whole(n) == Value("int", <<n>>)
Float(b) == Value("float", b)
Str(b) == Value("str", b)
Raw(b) == Value("bytes", b)

\* Both ends of the i64 range, one more, and a type that is not supported.
MCValues ==
  {Bool(1), Bool(0), Whole(31), Whole(-32), Whole(32), Float(<<3, 0, 2>>),
   Str(<<>>), Str(<<1, 2>>), Raw(<<3, 1>>), Raw(<<>>), Value("none", <<>>)}

MCLists ==
  {<<>>, <<<<>>>>, <<<<Str(<<2>>), Str(<<>>)>>, <<Whole(-1)>>>>,
   <<<<Bool(1), Bool(0)>>, <<Str(<<0>>)>>>>, <<<<Bool(1)>>, <<Whole(99)>>>>}

Entry(t, n) == [tag |-> t, count |-> n]
MCSchemas ==
  {<<Entry("str", 2), Entry("int", 1)>>, <<Entry("bool", 2)>>, <<Entry("str", 1)>>,
   <<Entry("u8", 2), Entry("float", 0)>>, <<Entry("bool", 1), Entry("f64", 0), Entry("str", 1)>>}

MCJunk == {[i \in 1 .. DataSize |-> IF i % 3 = 0 THEN 3 ELSE 0]}

=============================================================================
