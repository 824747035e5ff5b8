---------------------------- MODULE MCCompositor ----------------------------
\* Two windows, of the kinds that meet: two desktop shells, two programs, a
\* program with the task bar or with a shell.
EXTENDS Compositor

MCApps == {k \in [Window -> Kind] :
             {k[w] : w \in Window} \in {{"shell"}, {"program"}, {"bar", "program"}, {"shell", "program"}}}
Symmetry == Permutations(Window)
=============================================================================
