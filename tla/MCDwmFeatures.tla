---------------------------- MODULE MCDwmFeatures ----------------------------
(* Tags, with every mask and with stale EnterNotify events, or else modes,   *)
(* layouts and hints.  Both at once have too many states.                    *)
EXTENDS MCDwm

\* Nothing but tiled windows that ask for nothing.
Plain == /\ st.mode = [w \in Win |-> NoMode] /\ st.fsprop = {}
         /\ st.hint = {} /\ st.urgent = {}
         /\ st.tiling = [m \in Mon |-> TRUE]

\* Nothing but the first tag, in every view and on every client.
OneView == /\ \A m \in Mon, i \in {0, 1} : st.tagset[m][i] = {FirstTag}
           /\ \A c \in Managed(st) : st.tags[c] = {FirstTag}
           /\ st.enterq = NULL

\* Bound: a behaviour may go from one to the other, but not have both.
OneFeature == Plain \/ OneView
=============================================================================
