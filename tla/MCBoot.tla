---- MODULE MCBoot ----
(* Four real displays.  Two consoles of the first two fit flanterm's pool; of the third one   *)
(* does, and of the fourth none.                                                              *)
EXTENDS Boot

RealDisplays == {<<1024, 768>>, <<2560, 1440>>, <<3840, 2160>>, <<7680, 4320>>}
====
