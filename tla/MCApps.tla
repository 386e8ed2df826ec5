-------------------------------- MODULE MCApps --------------------------------
(* Apps for TLC: an app that asks for one scope, and one that asks for none *)
(* and accepts another config.                                              *)
EXTENDS Apps, TLC

CONSTANTS chat, diary, extra, first, second, ann, band, files, plain, dark

MCApp(read0, read1, scopes, accepts) ==
  [read |-> [n \in Slots |-> IF n = 0 THEN read0 ELSE read1],
   requested |-> [c \in Scopes |-> scopes], accepts |-> accepts]

MCStart(ax, of) ==
  [app |-> [w \in AppRows |->
     IF w = chat THEN ax
     ELSE IF w = diary THEN MCApp(ann, band, 0, {dark}) ELSE Nothing],
   installed |-> [n \in Installations |->
     IF of /\ n = first
       THEN [app |-> chat, granted |-> ax.requested, config |-> plain]
       ELSE Nothing]]

MCStarts ==
  {MCStart(MCApp(Nothing, ann, 1, {plain}), FALSE),
   MCStart(MCApp(ann, Nothing, 1, {plain}), TRUE)}

Publish(op, x, g) == [op |-> op, app |-> x, group |-> g]
Update(x, scopes, accepts) ==
  [op |-> "put app", app |-> x, scopes |-> scopes, accepts |-> accepts]
Install(g, x, scopes, config) ==
  [op |-> "install", by |-> g, app |-> x, scopes |-> scopes, config |-> config]
Reinstall(g, x, scopes, config) ==
  [op |-> "put installed", by |-> g, id |-> first, app |-> x,
   scopes |-> scopes, config |-> config]

MCAsks ==
  {Publish("publish", chat, band), Publish("publish", diary, band),
   Publish("unpublish", chat, ann), Publish("unpublish", diary, ann),
   Update(chat, <<{}>>, <<{dark}>>), Update(diary, <<{files}>>, <<>>),
   [op |-> "delete app", app |-> chat],
   Install(ann, chat, <<{files}>>, <<plain>>), Install(band, diary, <<>>, <<dark>>),
   Install(ann, chat, <<>>, <<>>),
   Reinstall(ann, <<diary>>, <<>>, <<>>), Reinstall(ann, <<diary>>, <<{files}>>, <<>>),
   Reinstall(ann, <<chat>>, <<{files}>>, <<plain>>),
   Reinstall(band, <<>>, <<{}>>, <<plain>>), Reinstall(band, <<>>, <<>>, <<dark>>),
   Reinstall(band, <<>>, <<>>, <<Nothing>>),
   [op |-> "uninstall", id |-> first],
   [op |-> "post app", by |-> band, scopes |-> <<{files}>>, accepts |-> <<{dark}>>]}

Symmetry == Permutations(Requests)
=============================================================================
