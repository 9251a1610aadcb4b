\* Two char variables and an int are enough to write to the wrong one.
SPECIFICATION WSpec
CONSTANTS
    Nombres = {x, y, z}
    Tipos = {"int", "char"}
    MaxNumero = 1
    Numeros <- MCNumeros
    Caracteres = {c0, c1}
    Literales = {1, c1}
    Cero = 0
    CarNulo = c0
    Operadores = {"+"}
    Aritmetica <- MCAritmetica
    Conversion <- MCConversion
    Capacidad = 3
    Indeterminado = Indeterminado
    Nulo = Nulo
    MaxNumVariables = 3
    MaxLlaves = 1
INVARIANTS
    SoloCambiaLaNombrada
CHECK_DEADLOCK FALSE
