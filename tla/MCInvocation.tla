---------------------------- MODULE MCInvocation ----------------------------
(* An account whose snapshot leaves six requests, one whose leaves three and *)
(* one without anything to score; the command lines that steer the caches.   *)
EXTENDS Invocation

MCHandles == {"a", "b", "c"}
MCNeed == [h \in MCHandles |-> CASE h = "a" -> 10 [] h = "b" -> 13 [] OTHER -> 2]
MCFiles == [h \in MCHandles |-> IF h = "c" THEN 0 ELSE 5]

Opt(canAsk, anonymous, signIn, explicit, quality) ==
  [canAsk |-> canAsk, anonymous |-> anonymous, signIn |-> signIn, explicit |-> explicit,
   quality |-> quality]
Line(who, o, mode, wanted, publicOnly, output) ==
  [who |-> who, opts |-> o, mode |-> mode, private |-> wanted, publicOnly |-> publicOnly,
   output |-> output]

Asked == Opt(TRUE, FALSE, FALSE, FALSE, "auto")
Nameless == Opt(FALSE, TRUE, FALSE, FALSE, "off")
Token == Opt(TRUE, FALSE, FALSE, TRUE, "auto")
SigningIn == Opt(TRUE, FALSE, TRUE, FALSE, "required")

MCLines == {Line(<<"a", "b">>, Asked, "normal", FALSE, FALSE, "text"),
            Line(<<"a">>, Nameless, "refresh", FALSE, TRUE, "text"),
            Line(<<"b", "c">>, Nameless, "no-cache", FALSE, TRUE, "export"),
            Line(<<"a">>, SigningIn, "normal", TRUE, FALSE, "text"),
            Line(<<"a", "b">>, Token, "normal", TRUE, FALSE, "export")}

MCProfiles == Profile
MCReadings == {0, 16, 98}
MCEmpty == {"c"}
=============================================================================
