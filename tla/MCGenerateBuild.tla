-------------------------- MODULE MCGenerateBuild --------------------------
(***************************************************************************)
(* The second version of the implementation class is one that flextool     *)
(* aborts on.                                                              *)
(***************************************************************************)
EXTENDS GenerateBuild

MCBroken == {<<"FooImpl.hpp", 2>>, <<"Foo.cc", 3>>}

=============================================================================
