----------------------------- MODULE Providers -----------------------------
(***************************************************************************)
(* The providers BackCover, Battery (of BME), maemo_InternalKeyboard,      *)
(* System and Screen, and Profile, side by side.                           *)
(*                                                                         *)
(* The server loads each from a library of its own (PROVIDER_PLUGIN of     *)
(* src/cmake), and they share no state: what one does changes nothing the  *)
(* others see, and an interleaving of several is, for each, a behaviour of *)
(* its own.  So it is enough to follow one at a time, and any one: the     *)
(* one named by provider moves, and the others stay as they started.       *)
(***************************************************************************)
EXTENDS BackCover, Bme, Keyboard, Mce, Profile

VARIABLE provider   \* the one that is followed

backCover == vars

allVars == <<provider, backCover, bmeVars, keyboardVars, mceVars, profileVars>>

Names == {"back_cover", "bme", "keyboard", "mce", "profile"}

\* one that is not followed starts in one of its initial states, any one
Resting(name, state) == provider # name => state

ProvidersInit ==
  /\ provider \in Names
  /\ Init /\ Resting("back_cover", dock = "off")
  /\ BmeInit /\ Resting("bme", /\ exit_handler /\ file /\ serving
                               /\ \A s \in {answer, statistics} :
                                    s = CHOOSE t \in Statistics : TRUE)
  /\ KeyboardInit /\ Resting("keyboard", plugged = {})
  /\ MceInit /\ Resting("mce", mceUp /\ value.display = "on" /\ value.radio = {})
  /\ ProfileInit
  /\ Resting("profile", running /\ active = CHOOSE p \in Profiles : TRUE)

Follow(name) == provider = name /\ UNCHANGED provider

BackCoverStep == /\ Follow("back_cover") /\ Next
                 /\ UNCHANGED <<bmeVars, keyboardVars, mceVars, profileVars>>
BmeStep == /\ Follow("bme") /\ BmeNext
           /\ UNCHANGED <<backCover, keyboardVars, mceVars, profileVars>>
KeyboardStep == /\ Follow("keyboard") /\ KeyboardNext
                /\ UNCHANGED <<backCover, bmeVars, mceVars, profileVars>>
MceStep == /\ Follow("mce") /\ MceNext
           /\ UNCHANGED <<backCover, bmeVars, keyboardVars, profileVars>>
ProfileStep == /\ Follow("profile") /\ ProfileNext
               /\ UNCHANGED <<backCover, bmeVars, keyboardVars, mceVars>>

ProvidersNext == \/ BackCoverStep \/ BmeStep \/ KeyboardStep
                 \/ MceStep \/ ProfileStep

\* each provider's own fairness; a resting BackCover has nothing to do
ProvidersFairness ==
  /\ Fairness
  /\ WF_bmeVars(provider = "bme" /\ Work)
  /\ WF_bmeVars(provider = "bme" /\ Listener)
  /\ WF_bmeVars(provider = "bme" /\ Destructor)
  /\ WF_keyboardVars(provider = "keyboard" /\ Constructor)
  /\ WF_keyboardVars(provider = "keyboard" /\ MonitorThread)
  /\ WF_keyboardVars(provider = "keyboard" /\ JoinMonitorThread)
  /\ WF_keyboardVars(provider = "keyboard" /\ SendUdevEvent)
  /\ WF_mceVars(provider = "mce" /\ MceLoop)
  /\ WF_profileVars(provider = "profile" /\ ProfileLoop)

ProvidersSpec == ProvidersInit /\ [][ProvidersNext]_allVars /\ ProvidersFairness

----------------------------------------------------------------------------
(* Properties.                                                             *)

\* What the bridges to MCE and profiled show, once everything is handled.
MirrorsShown == ProfileShown /\ MceShown

\* Neither ever shows a value its daemon did not have, nor goes back to an
\* older one than it has shown: a signal that was queued before the value was
\* read is lost with its proxy, which is replaced before (profile 46-65,
\* mce 48-74).
ImplementsMirror == /\ NameMirror!Spec
                    /\ PsmMirror!Spec
                    /\ DisplayMirror!Spec
                    /\ RadioMirror!Spec

\* The destructors that join a thread return (bme 86-94, keyboard 151-156).
DestructorsReturn == BmeStops /\ KeyboardStops
============================================================================
