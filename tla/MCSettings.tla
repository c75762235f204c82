----------------------------- MODULE MCSettings -----------------------------
(* Names, payloads and images for model checking Settings. *)
EXTENDS Settings, TLC

CONSTANTS r1, r2, red, blue, retention, digest

Requests == {r1, r2}

Word(letters) == [letters |-> letters, noise |-> FALSE]
Noise(letters) == [letters |-> letters, noise |-> TRUE]

Default == <<Word(<<"h", "a">>)>>

(* Two names with the same initials, one with others.                      *)
TestBank == <<Word(<<"t", "e">>), Word(<<"b", "a">>), Noise(<<"s", "d">>)>>
TopBrand == <<Word(<<"t", "o">>), Word(<<"b", "r">>)>>
Spaces == << >>
Acme == <<Word(<<"a", "c">>)>>

First == [name |-> TestBank, initials |-> Initials(TestBank), color |-> red,
          logo |-> NoLogo, prefs |-> << >>]

Change(name, color, prefs) ==
    [name |-> name, color |-> color, logo |-> NotGiven, prefs |-> prefs]

Payloads == {Change(TopBrand, NotGiven, retention :> 1), Change(Acme, blue, digest :> 1),
             FormPayload(Blank, blue), Change(Blank, NotGiven, NotGiven)}

Picture(size, kind, dangerous, decodes) ==
    [size |-> size, kind |-> kind, dangerous |-> dangerous, decodes |-> decodes]

Images == {Picture("fits", "svg", FALSE, TRUE), Picture("fits", "svg", TRUE, TRUE),
           Picture("fits", "png", FALSE, FALSE), Picture("large", "png", FALSE, TRUE),
           Picture("none", "unknown", FALSE, FALSE)}
=============================================================================
