------------------------------ MODULE MCPlanning ------------------------------
(* Model checking instance of Planning: a few headsets and settings.       *)
EXTENDS Planning

Pac(rates, ms, octets, counts, frames) ==
    [lc3 |-> TRUE, rates |-> rates, ms |-> ms, octets |-> octets, counts |-> counts,
     frames |-> frames]

Usual == << Pac({16}, {100}, {<<30, 40>>}, {1}, {}),
            Pac({48}, {75, 100}, {<<75, 100>>}, {}, {}) >>
Mixed == << Pac({24}, {100}, {<<45, 60>>}, {1, 2}, {2}),
            Pac({48}, {100}, {}, {1}, {1}) >>
OneStream == << Pac({48}, {100}, {<<26, 155>>}, {2}, {2}) >>
Vendor == << [lc3 |-> FALSE, rates |-> {48}, ms |-> {100}, octets |-> {}, counts |-> {},
              frames |-> {}] >>

Says(min, max, prefmin, prefmax, rtn, transport) ==
    [min |-> min, max |-> max, prefmin |-> prefmin, prefmax |-> prefmax, rtn |-> rtn,
     transport |-> transport, framed |-> FALSE]

Loose == Says(0, 50, 0, 0, 0, 0)
Early == Says(10, 30, 20, 25, 5, 60)
Late  == Says(25, 60, 45, NoPreference, 13, 100)
Never == Says(55, 80, 0, 0, 2, 4)

Headset(sinks, ases, mics, contexts, moods, mic) ==
    [sinks |-> sinks, sources |-> Usual, ases |-> ases, mics |-> mics, contexts |-> contexts,
     moods |-> moods, micAnswer |-> mic]

TwoEars == {<<Loose, Loose>>, <<Early, Late>>, <<Late, Early>>, <<Early, Never>>, <<Late, Late>>}

\* The same answers for either radio, or others for the first one.
Alike(ears) == <<ears, ears>>
Apart(ears) == << <<Late, Late>>, ears >>

SomeDevices ==
    {Headset(Usual, <<1, 2>>, <<3>>, {}, {f}, m) :
        f \in {Alike(e) : e \in TwoEars} \cup {Apart(e) : e \in TwoEars},
        m \in {Early, [Loose EXCEPT !.framed = TRUE]}}
    \cup {Headset(Usual, <<1, 2>>, <<3>>, {}, {Alike(<<Early, Early>>), Apart(<<Early, Late>>)}, Early)}
    \cup {Headset(s, <<1>>, <<>>, {{"media"}}, {Alike(<<Early>>), Alike(<<a>>)}, Loose) :
            s \in {Usual, Mixed, OneStream, Vendor}, a \in {Early, Never}}
    \cup {Headset(Mixed, <<1, 2>>, <<3>>, {{"media", "game"}}, {Alike(e)}, Early) : e \in TwoEars}
    \cup {Headset(Usual, <<>>, <<3>>, {}, {Alike(<<>>)}, Loose)}

Settings(preset, context, mode, mic, rate, octets, phy, rtn, transport, delay) ==
    [preset |-> preset, context |-> context, mode |-> mode, mic |-> mic, rate |-> rate,
     ms |-> 100, octets |-> octets, phy |-> phy, rtn |-> rtn, transport |-> transport,
     delay |-> delay]

SomeSettings ==
    {Settings(p, c, m, "off", 48, 100, 2, 2, 20, 40) :
        p \in {"range", "google"}, c \in {"media", "game"}, m \in {"stereo", "mono"}}
    \cup {Settings("google", c, "stereo", q, 48, 100, 2, 2, 20, 40) :
            c \in {"media", "game"}, q \in {"voice", "high"}}
    \cup {Settings("custom", "media", m, "off", 48, 100, phy, 2, t, d) :
            m \in {"stereo", "mono"}, phy \in {1, 2}, t \in {20, 70}, d \in {28, 40}}
    \cup {Settings("custom", "game", "stereo", q, r, o, 1, n, 20, 28) :
            q \in {"off", "balanced"}, r \in {44, 48}, o \in {100, 401}, n \in {2, 16}}
=============================================================================
