-------------------------- MODULE MCFixDeserialise --------------------------
(* Small instances of FixDeserialise for TLC. *)
EXTENDS FixDeserialise, TLC

\* The bytes of a string; SOH is shown as "|", as printMsg does.
Chars(s) == [i \in 1 .. Len(s) |-> SubSeq(s, i, i)]
Msg(t, s) == [type |-> Chars(t), bytes |-> Chars(s)]

HeartBeat == Msg("0", "8=F|9=10|35=0|34=2|10=4|")
Logon == Msg("A", "8=F|9=15|35=A|34=1|98=0|10=1|")
TestRequest == Msg("1", "8=F|9=17|35=1|34=3|112=AB|10=7|")
ShortHeartBeat == Msg("0", "8=F|9=5|35=0|10=3|")

\* A negative value behind a tag that ends in 8, and a value beyond the int range.
Order == Msg("D", "8=F|9=22|35=D|98=0|44=-15|58=A|10=6|")
News == Msg("B", "8=F|9=25|35=B|58=ABCDE|38=0|5=200|10=5|")

SomeMessages == {HeartBeat, Logon, TestRequest, ShortHeartBeat}
TornMessages == {HeartBeat, ShortHeartBeat, Order, News}
TwoMessages == {Logon, ShortHeartBeat}
=============================================================================
