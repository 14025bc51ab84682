---------------------------- MODULE MCPermissions ----------------------------
EXTENDS Permissions, TLC
CONSTANTS a, b, page, menu, api, button, field
MCTypeOf == [x \in Resource |-> CASE x = page -> "PAGE" [] x = menu -> "MENU" [] x = api -> "API"
                                   [] x = button -> "BUTTON" [] x = field -> "FIELD"]
Symmetry == Permutations(Req)
==============================================================================
